---- MODULE Spec2Model ----
(***************************************************************************)
(* Public-key trust core of the secure file-sharing application.           *)
(*                                                                         *)
(* The repository holds two back ends.  Definitions prefixed A_ model the  *)
(* MongoDB back end (backend/routes, backend/utils: challenge-response     *)
(* login, CA kept in two PEM files); definitions prefixed B_ model the     *)
(* PostgreSQL back end (backend/src, utils/certificate: CA object with a   *)
(* serial counter and a revoked_certificates table).                       *)
(*                                                                         *)
(* Keys are abstracted to identifiers: key pair k has private key k and    *)
(* public key k; a signature is the pair of the signing key and the signed *)
(* data, and verifies under public key p over data d iff it was made with  *)
(* key p over d.                                                           *)
(***************************************************************************)
EXTENDS Integers, Sequences, FiniteSets, TLC

----------------------------------------------------------------------------
(* Bounds of the model *)

MaxTime == 2

MaxSessions == 3

MaxHandlers == 2

IdleHandler == [route |-> "idle"]
\* ticks of the wall clock

MaxKeys == 1
\* key pairs generateKeyPair may hand out

MaxChallenge == 2
\* distinct challenge strings

MaxReqs == 2
\* login requests (each may overlap the other)

MaxSerial == 1
\* distinct values of the random serial of back end A

MaxIssued == 1
\* challenges the /challenge endpoint hands out

CertValidity == 1
\* ticks a certificate is valid for (one year in the code)

ChallengeTTL == 1
\* ticks a challenge is meant to live (the design's "short window")

----------------------------------------------------------------------------
(* Value spaces *)

UserNames == <<"alice", "bob", "carol">>

Users == {UserNames[i] : i \in 1..MaxKeys}
\* the usernames that register

Stranger == "mallory"
\* a username that never registers

Empty == "empty"
\* a missing / falsy request field

AttackerKey == MaxKeys + 1
\* a key pair generated outside the server

CAKey == MaxKeys + 2
\* the root key pair of an initialised CA

Times == 0..MaxTime

ChallengeNames == <<"c1", "c2", "c3", "c4">>

ChallengeSpace == {ChallengeNames[i] : i \in 1..MaxChallenge}

EmptySig == [kind |-> "empty"]
\* a missing signature field

Reqs == 1..MaxReqs

A_SerialSpace == 1..MaxSerial

NoUser == [registered |-> FALSE]

NoFile == [kind |-> "none"]

KeyPem(k) == [kind |-> "key", key |-> k]

CorruptPem == [kind |-> "corrupt"]

NoVerify == [called |-> FALSE]

VARIABLES
    now,            \* wall clock
    A_build,        \* which CryptoUtils.verifyCertificate the back end runs
    A_caKeyFile,    \* ca/ca-key.pem: NoFile, CorruptPem or KeyPem(k)
    A_caCertFile,   \* ca/ca-cert.pem: NoFile, CorruptPem or a certificate
    A_users,        \* User collection, by username
    A_keyCounter,   \* key pairs generated so far by registration
    A_revokeLog,    \* serials passed to revokeCertificate (its console log)
    A_challenges,   \* responses of the /challenge endpoint: [challenge, timestamp]
    A_req,          \* login requests in flight and answered
    A_init,         \* calls of initializeCA: where each stands, the key it made
    A_lastVerify,   \* the last direct call of CA.verifyCertificate and its answer
    B_proc,         \* the server process of back end B: "down", "up" or "exited"
    B_keyFile,      \* certificates/ca-private-key.pem
    B_certFile,     \* certificates/ca-certificate.pem
    B_caKeyPair,    \* ca.caKeyPair: NoFile (null) or [privateKey, publicKey]
    B_caCert,       \* ca.caCert: NoFile (null) or the root certificate
    B_serialNumber, \* ca.serialNumber
    B_users,        \* rows of the users table
    B_revoked,      \* certificate_serial column of revoked_certificates
    B_issued,       \* what generateUserCertificate has returned, in order
    B_roots,        \* root key pairs generated so far, over all runs
    B_damagedAtBoot,\* the stored root was damaged when the running process started
    B_lastVerify,   \* the last call of ca.verifyCertificate and its answer
    B_revokeCalls,  \* serials passed to ca.revokeCertificate, in order (its log lines)
    A_messages,     \* Message collection of back end A
    A_files,        \* File collection of back end A
    B_messages,     \* messages table of back end B
    B_files,        \* files table of back end B with the file each row points to
    B_shares,       \* file_shares table of back end B
    B_audit,        \* details column of the audit_logs table of back end B
    S_req,          \* the last request received by a message or file route
    S_resp,         \* the response to it
    F_localStorage, \* window.localStorage of the browser, by key
    F_appToken,     \* the token state of App (useState)
    F_auth,         \* the state of authReducer (useReducer in AuthProvider)
    F_keys,         \* the 'keys' object store of IndexedDB, by user name
    W_sig,          \* the last signature handed from a producer to a verifier
    N_users,        \* back end B, table users: is_active and password per user
    N_user_sessions,\* back end B, table user_sessions, by session token
    N_invalidated,  \* history: the session tokens that were invalidated
    N_last,         \* the last run of an authentication middleware
    R_req           \* the message requests in flight, each with what it loaded

varsA == <<A_build, A_caKeyFile, A_caCertFile, A_users, A_keyCounter,
           A_revokeLog, A_challenges, A_req>>

varsAData == <<A_build, A_users, A_keyCounter, A_revokeLog, A_challenges, A_req>>

varsB == <<B_proc, B_keyFile, B_certFile, B_caKeyPair, B_caCert, B_serialNumber,
           B_users, B_revoked, B_issued, B_roots, B_damagedAtBoot, B_lastVerify,
           B_revokeCalls>>

varsS == <<A_messages, A_files, B_messages, B_files, B_shares, B_audit, S_req, S_resp>>

varsF == <<F_localStorage, F_appToken, F_auth, F_keys>>

varsW == <<W_sig>>

varsN == <<N_users, N_user_sessions, N_invalidated, N_last>>

varsR == <<R_req>>

vars == <<now, varsA, A_init, A_lastVerify, varsB, varsS, varsF, varsW, varsN, varsR>>

NoRequest == [route |-> "none"]

InitS ==
    /\ A_messages = <<>>
    /\ A_files = <<>>
    /\ B_messages = <<>>
    /\ B_files = <<>>
    /\ B_shares = {}
    /\ B_audit = {}
    /\ S_req = NoRequest
    /\ S_resp = NoRequest

\* null of JavaScript, as a record so that it compares with records
Null == [null |-> TRUE]

\* the keys the frontend uses in localStorage
StorageKeys == {"token", "user", "privateKey", "authToken"}

\* initialState of AuthContext
initialState ==
    [user |-> Null, token |-> Null, loading |-> TRUE, error |-> Null,
     isAuthenticated |-> FALSE]

\* a fresh browser profile
\* back end B, sessions
N_Users == {"admin", "alice"}

Passwords == {"pw1", "pw2"}

NoSession == [none |-> TRUE]

NoOne == "nobody"

InitN ==
    /\ N_users = [u \in N_Users |-> [is_active |-> TRUE, password |-> "pw1"]]
    /\ N_user_sessions = [s \in 1..MaxSessions |-> NoSession]
    /\ N_invalidated = {}
    /\ N_last = [middleware |-> "none"]
    /\ R_req = [h \in 1..MaxHandlers |-> IdleHandler]

InitF ==
    /\ F_localStorage = [k \in StorageKeys |-> Null]
    /\ F_appToken = Null
    /\ F_auth = initialState
    /\ F_keys = {}
    /\ W_sig = [channel |-> "none"]

----------------------------------------------------------------------------
(* CryptoUtils of back end A (backend/utils/crypto.js) *)

\* createSignature: SHA256-RSA signature of data under privateKey
CryptoUtils_createSignature(data, privateKey) ==
    [key |-> privateKey, data |-> data]

CryptoUtils_verifySignature_AnyData(data, signature, publicKey) ==
    signature.key = publicKey

\* verifySignature: true iff signature was made over data with publicKey's pair
CryptoUtils_verifySignature(data, signature, publicKey) ==
    signature.key = publicKey /\ signature.data = data

\* createCertificate: notBefore = now, notAfter = now + 1 year, signed by privateKey
CryptoUtils_createCertificate(publicKey, privateKey, subject, issuer, serialNumber, t) ==
    [kind         |-> "cert",
     serialNumber |-> serialNumber,
     subject      |-> subject,
     issuer       |-> IF issuer = Empty THEN subject ELSE issuer,
     publicKey    |-> publicKey,
     notBefore    |-> t,
     notAfter     |-> t + CertValidity,
     signedBy     |-> privateKey]

\* forge: publicKey.verify(digest, signature, scheme) calls scheme.verify; a
\* message-digest object passed as scheme has no verify method, so the call throws
forge_publicKey_verify_md(publicKey, cert) == "throws"

\* forge: caCert.verify(child): throws unless child.issuer = caCert.subject,
\* else checks the child's signature under caCert.publicKey
forge_cert_verify(caCert, cert) ==
    IF cert.issuer # caCert.subject THEN "throws"
    ELSE IF cert.signedBy = caCert.publicKey THEN "true" ELSE "false"

\* verifyCertificate as committed in crypto.js: any exception gives false
CryptoUtils_verifyCertificate(cert, caCert, t) ==
    IF cert.kind # "cert" \/ caCert.kind # "cert" THEN "false"
    ELSE IF t < cert.notBefore \/ t > cert.notAfter THEN "false"
    ELSE IF forge_publicKey_verify_md(caCert.publicKey, cert) = "throws" THEN "false"
    ELSE forge_publicKey_verify_md(caCert.publicKey, cert)

\* verifyCertificate as the repository documents its fix: no try/catch, no dates
CryptoUtils_verifyCertificate_fixed(cert, caCert) ==
    IF cert.kind # "cert" \/ caCert.kind # "cert" THEN "throws"
    ELSE forge_cert_verify(caCert, cert)

----------------------------------------------------------------------------
(* CertificateAuthority of back end A (backend/utils/ca.js) *)

CASubject == "Secure File Sharing CA"

\* the certificate initializeCA writes for root key k at time t (self-signed)
A_rootCertificate(k, t) ==
    CryptoUtils_createCertificate(k, k, CASubject, Empty, 0, t)

\* issueCertificate: reads both PEM files, parses them, signs the user certificate
A_issueCertificate(userPublicKey, userSubject, serial, t) ==
    IF A_caCertFile.kind # "cert" \/ A_caKeyFile.kind # "key"
    THEN [ok |-> FALSE]
    ELSE [ok          |-> TRUE,
          certificate |-> CryptoUtils_createCertificate(userPublicKey, A_caKeyFile.key,
                              userSubject, A_caCertFile.subject, serial, t),
          serial      |-> serial,
          issuedAt    |-> t,
          expiresAt   |-> t + CertValidity]

\* CA.verifyCertificate: "true", "false" or "throws" (Failed to verify certificate)
A_verifyCertificate(userCert, t) ==
    IF A_build = "committed"
    THEN CryptoUtils_verifyCertificate(userCert, A_caCertFile, t)
    ELSE CryptoUtils_verifyCertificate_fixed(userCert, A_caCertFile)

----------------------------------------------------------------------------
(* CA initialisation of back end A: initializeCA is called when the auth    *)
(* routes load, when the server has connected to the database, and lazily   *)
(* by getCACertificate and getCAPrivateKey; every await is a step.          *)

InitCallers == {"routesLoad", "serverStart", "getCACertificate", "getCAPrivateKey"}

IdleCall == [pc |-> "idle", key |-> 0]

\* the root key pair a call generates
RootKeyOf(c) ==
    CAKey + (CASE c = "routesLoad" -> 0 [] c = "serverStart" -> 1
               [] c = "getCACertificate" -> 2 [] OTHER -> 3)

PathExists(file) == file.kind # "none"

\* the calls that generated a root key pair
RootsCreated == {c \in InitCallers : A_init[c].key # 0}

\* generateKeyPair and createCertificate, then the first writeFile is issued
GenerateRoot(c) == [A_init EXCEPT ![c] = [pc |-> "writeKey", key |-> RootKeyOf(c)]]

\* a caller enters: the two lazy getters only when their own file is absent
A_InitCall(c) ==
    /\ A_init[c].pc = "idle"
    /\ c # "routesLoad" => A_init["routesLoad"].pc # "idle"
    /\ A_init' = [A_init EXCEPT ![c].pc =
          IF \/ c = "getCACertificate" /\ PathExists(A_caCertFile)
             \/ c = "getCAPrivateKey" /\ PathExists(A_caKeyFile)
          THEN "done" ELSE "ensureDir"]
    /\ UNCHANGED <<now, varsA>>

\* await fs.ensureDir(caDir)
A_EnsureDir(c) ==
    /\ A_init[c].pc = "ensureDir"
    /\ A_init' = [A_init EXCEPT ![c].pc = "pathExistsKey"]
    /\ UNCHANGED <<now, varsA>>

\* await fs.pathExists(caKeyPath): absent short-circuits to the generation
A_PathExistsKey(c) ==
    /\ A_init[c].pc = "pathExistsKey"
    /\ A_init' = IF PathExists(A_caKeyFile)
                 THEN [A_init EXCEPT ![c].pc = "pathExistsCert"]
                 ELSE GenerateRoot(c)
    /\ UNCHANGED <<now, varsA>>

\* await fs.pathExists(caCertPath): both present returns "already initialized"
A_PathExistsCert(c) ==
    /\ A_init[c].pc = "pathExistsCert"
    /\ A_init' = IF PathExists(A_caCertFile)
                 THEN [A_init EXCEPT ![c].pc = "done"]
                 ELSE GenerateRoot(c)
    /\ UNCHANGED <<now, varsA>>

\* await fs.writeFile(caKeyPath, caKeys.privateKey)
A_WriteKey(c) ==
    /\ A_init[c].pc = "writeKey"
    /\ A_caKeyFile' = KeyPem(A_init[c].key)
    /\ A_init' = [A_init EXCEPT ![c].pc = "writeCert"]
    /\ UNCHANGED <<now, A_caCertFile, varsAData>>

\* await fs.writeFile(caCertPath, caCert)
A_WriteCert(c) ==
    /\ A_init[c].pc = "writeCert"
    /\ A_caCertFile' = A_rootCertificate(A_init[c].key, now)
    /\ A_init' = [A_init EXCEPT ![c].pc = "done"]
    /\ UNCHANGED <<now, A_caKeyFile, varsAData>>

----------------------------------------------------------------------------
(* CertificateAuthority of back end B (utils/certificate) *)

MaxIssue == 2
\* calls of generateUserCertificate in one behaviour

MaxBoots == 2
\* root key pairs generated over all runs of the process

B_Users == {"alice", "bob"}

B_CASubject == "Secure App CA"

\* Number.prototype.toString(): the decimal digits of n
RECURSIVE Number_toString(_)
Number_toString(n) == IF n < 10 THEN <<n>> ELSE Number_toString(n \div 10) \o <<n % 10>>

\* certificateToPem then certificateFromPem: the serial string is written as
\* hex bytes (an odd number of digits gets a leading zero) and read back as hex
PemSerial(str) == IF Len(str) % 2 = 1 THEN <<0>> \o str ELSE str

\* the certificate a PEM holds: what certificateFromPem gives back
B_Certificate(publicKey, signingKey, subject, issuer, serialString, t, years) ==
    [kind         |-> "cert",
     serialNumber |-> PemSerial(serialString),
     subject      |-> subject,
     issuer       |-> issuer,
     publicKey    |-> publicKey,
     notBefore    |-> t,
     notAfter     |-> t + years * CertValidity,
     signedBy     |-> signingKey]

CAYears == 10
\* years the root certificate is valid for

\* the self-signed root certificate initializeCA creates (serial '01', 10 years)
B_rootCertificate(k, t) ==
    B_Certificate(k, k, B_CASubject, B_CASubject, <<0, 1>>, t, CAYears)

InitB ==
    /\ B_proc = "down"
    /\ B_keyFile = NoFile
    /\ B_certFile = NoFile
    /\ B_caKeyPair = NoFile
    /\ B_caCert = NoFile
    /\ B_serialNumber = 1
    /\ B_users = {}
    /\ B_revoked = {}
    /\ B_issued = <<>>
    /\ B_roots = 0
    /\ B_damagedAtBoot = FALSE
    /\ B_lastVerify = NoVerify
    /\ B_revokeCalls = <<>>

\* the stored root is there but cannot be loaded: a file missing or unparsable
StoredRootDamaged ==
    /\ B_keyFile # NoFile \/ B_certFile # NoFile
    /\ B_keyFile.kind # "key" \/ B_certFile.kind # "cert"

\* initializeApp: db.query('SELECT 1'), then the constructor's state and
\* initializeCA: load the stored root, and on any error create a new one
B_initializeApp(dbOk) ==
    /\ B_proc \in {"down", "exited"}
    /\ IF ~dbOk
       THEN /\ B_proc' = "exited"
            /\ UNCHANGED <<B_keyFile, B_certFile, B_caKeyPair, B_caCert,
                           B_serialNumber, B_roots, B_damagedAtBoot>>
       ELSE /\ B_proc' = "up"
            /\ B_serialNumber' = 1
            /\ B_damagedAtBoot' = StoredRootDamaged
            /\ IF B_keyFile.kind = "key" /\ B_certFile.kind = "cert"
               THEN /\ B_caKeyPair' = [kind       |-> "pair",
                                       privateKey |-> B_keyFile.key,
                                       publicKey  |-> B_certFile.publicKey]
                    /\ B_caCert' = B_certFile
                    /\ UNCHANGED <<B_keyFile, B_certFile, B_roots>>
               ELSE /\ B_roots < MaxBoots
                    /\ LET k == CAKey + B_roots
                       IN  /\ B_caKeyPair' = [kind |-> "pair", privateKey |-> k,
                                              publicKey |-> k]
                           /\ B_caCert' = B_rootCertificate(k, now)
                           /\ B_keyFile' = KeyPem(k)
                           /\ B_certFile' = B_rootCertificate(k, now)
                           /\ B_roots' = B_roots + 1
    /\ UNCHANGED <<now, B_revokeCalls, B_users, B_revoked, B_issued, B_lastVerify>>

\* SIGTERM / SIGINT: the process ends, its memory is gone, disk and tables stay
B_shutdown ==
    /\ B_proc = "up"
    /\ B_proc' = "down"
    /\ B_caKeyPair' = NoFile
    /\ B_caCert' = NoFile
    /\ UNCHANGED <<now, B_revokeCalls, B_keyFile, B_certFile, B_serialNumber, B_users, B_revoked,
                   B_issued, B_roots, B_damagedAtBoot, B_lastVerify>>

\* the key file is lost or garbled while the process is down
B_DamageKeyFile(what) ==
    /\ B_proc = "down"
    /\ B_keyFile.kind = "key"
    /\ B_keyFile' = what
    /\ UNCHANGED <<now, B_revokeCalls, B_proc, B_certFile, B_caKeyPair, B_caCert, B_serialNumber,
                   B_users, B_revoked, B_issued, B_roots, B_damagedAtBoot,
                   B_lastVerify>>

\* generateUserCertificate: the next serial, one year, signed by the root key
B_generateUserCertificate(username, publicKeyPem, serial, t) ==
    [certificate  |-> B_Certificate(publicKeyPem.key, B_caKeyPair.privateKey,
                                    username, B_caCert.subject, Number_toString(serial), t, 1),
     serialNumber |-> Number_toString(serial)]

\* POST /register: 409 for a known user, else a certificate from the CA and a
\* row in users, whose certificate_serial is UNIQUE
B_Register(username, publicKeyPem) ==
    /\ B_proc = "up"
    /\ Len(B_issued) < MaxIssue
    /\ \A row \in B_users : row.username # username          \* else 409
    /\ publicKeyPem.kind = "key"                              \* else 500
    /\ LET serial == B_serialNumber + 1
           data   == B_generateUserCertificate(username, publicKeyPem, serial, now)
       IN  /\ B_serialNumber' = serial
           /\ B_issued' = Append(B_issued, data)
           /\ B_users' =
                 IF \E row \in B_users : row.certificate_serial = data.serialNumber
                 THEN B_users                                 \* INSERT fails: 500
                 ELSE B_users \cup {[username           |-> username,
                                     public_key         |-> publicKeyPem.key,
                                     certificate        |-> data.certificate,
                                     certificate_serial |-> data.serialNumber,
                                     is_active          |-> TRUE]}
    /\ UNCHANGED <<now, B_revokeCalls, B_proc, B_keyFile, B_certFile, B_caKeyPair, B_caCert,
                   B_revoked, B_roots, B_damagedAtBoot, B_lastVerify>>

\* isCertificateRevoked: a failed query answers false
B_isCertificateRevoked(serialNumber, dbOk) ==
    IF dbOk THEN serialNumber \in B_revoked ELSE FALSE

\* ca.verifyCertificate: {valid, expired, revoked}, or {valid: false, error}
B_verifyCertificate(certificatePem, t, dbOk) ==
    IF certificatePem.kind # "cert" \/ B_caCert.kind # "cert"
       \/ forge_cert_verify(B_caCert, certificatePem) = "throws"
    THEN [valid |-> FALSE, error |-> TRUE, expired |-> FALSE, revoked |-> FALSE]
    ELSE LET verified   == forge_cert_verify(B_caCert, certificatePem) = "true"
             notExpired == t >= certificatePem.notBefore /\ t <= certificatePem.notAfter
             isRevoked  == B_isCertificateRevoked(certificatePem.serialNumber, dbOk)
         IN  [valid   |-> verified /\ notExpired /\ ~isRevoked,
              error   |-> FALSE,
              expired |-> ~notExpired,
              revoked |-> isRevoked]

\* the serials generateUserCertificate returned for this certificate
ReturnedSerials(cert) ==
    {B_issued[i].serialNumber : i \in {j \in DOMAIN B_issued : B_issued[j].certificate = cert}}

\* POST /verify-certificate
B_VerifyCall(certificatePem, dbOk) ==
    /\ B_proc = "up"
    /\ B_lastVerify' =
          [called  |-> TRUE,
           cert    |-> certificatePem,
           at      |-> now,
           dbOk    |-> dbOk,
           revokedIssued |-> ReturnedSerials(certificatePem) \cap B_revoked # {},
           revokedRead   |-> certificatePem.kind = "cert"
                             /\ certificatePem.serialNumber \in B_revoked,
           rootKey |-> B_caCert.publicKey,
           answer  |-> B_verifyCertificate(certificatePem, now, dbOk)]
    /\ UNCHANGED <<now, B_revokeCalls, B_proc, B_keyFile, B_certFile, B_caKeyPair, B_caCert,
                   B_serialNumber, B_users, B_revoked, B_issued, B_roots,
                   B_damagedAtBoot>>

MaxRevokes == 2
\* calls of ca.revokeCertificate in one behaviour

\* the table after INSERT ... ON CONFLICT (certificate_serial) DO NOTHING
RevokedAfterInsert_Replace(rows, serialNumber) == {serialNumber}

RevokedAfterInsert(rows, serialNumber) == rows \cup {serialNumber}

\* ca.revokeCertificate: the INSERT, then a log line, then true
B_revokeCertificate(serialNumber) ==
    /\ B_proc = "up"
    /\ Len(B_revokeCalls) < MaxRevokes
    /\ B_revoked' = RevokedAfterInsert(B_revoked, serialNumber)
    /\ B_revokeCalls' = Append(B_revokeCalls, serialNumber)
    /\ UNCHANGED <<now, B_proc, B_keyFile, B_certFile, B_caKeyPair, B_caCert,
                   B_serialNumber, B_users, B_issued, B_roots, B_damagedAtBoot,
                   B_lastVerify>>

\* the public keys a client may send to /register
B_ClientKeys == {KeyPem(k) : k \in 1..MaxKeys} \cup {CorruptPem}

\* the certificates a caller can present
PresentableB == {B_issued[i].certificate : i \in DOMAIN B_issued} \cup {CorruptPem}

\* the serials a caller can ask to revoke: as returned by the CA, or as read
\* from a certificate
RevocableB ==
    {B_issued[i].serialNumber : i \in DOMAIN B_issued}
    \cup {B_issued[i].certificate.serialNumber : i \in DOMAIN B_issued}

----------------------------------------------------------------------------
(* Routes of back end A (backend/routes/auth.js) *)

SigSpace == [key : (1..MaxKeys) \cup {AttackerKey}, data : ChallengeSpace]

IdleReq == [pc |-> "idle"]

\* a request that has been answered
Answered(r) == A_req[r].pc = "done"

InFlight(r) == A_req[r].pc \in {"findOne", "verifyCert", "save"}

\* challenges some login request has carried so far
SubmittedChallenges == {A_req[r].challenge : r \in {q \in Reqs : A_req[q].pc # "idle"}}

\* the /challenge response that returned c, if any
IssuedAt(c) == {x.timestamp : x \in {y \in A_challenges : y.challenge = c}}

\* POST /register: key pair, certificate from the CA, user document
A_Register(u, serial) ==
    /\ A_users[u] = NoUser                      \* else 409
    /\ A_keyCounter < MaxKeys
    /\ LET k    == A_keyCounter + 1
           data == A_issueCertificate(k, u, serial, now)
       IN  /\ data.ok                            \* else 500
           /\ A_keyCounter' = k
           /\ A_users' = [A_users EXCEPT ![u] =
                  [registered        |-> TRUE,
                   username          |-> u,
                   publicKey         |-> k,
                   certificate       |-> data.certificate,
                   certificateSerial |-> data.serial,
                   issuedAt          |-> data.issuedAt,
                   expiresAt         |-> data.expiresAt,
                   isRevoked         |-> FALSE,
                   lastLogin         |-> 0]]
    /\ UNCHANGED <<now, A_build, A_caKeyFile, A_caCertFile, A_revokeLog,
                   A_challenges, A_req>>

\* POST /challenge: a fresh hash, returned with a timestamp and not stored
A_Challenge(c) ==
    /\ c \notin {x.challenge : x \in A_challenges}
    /\ Cardinality(A_challenges) < MaxIssued
    /\ \A i \in 1..MaxChallenge :
          ChallengeNames[i] = c => \A j \in 1..(i - 1) : IssuedAt(ChallengeNames[j]) # {}
    /\ A_challenges' = A_challenges \cup {[challenge |-> c, timestamp |-> now]}
    /\ UNCHANGED <<now, A_build, A_caKeyFile, A_caCertFile, A_users, A_keyCounter,
                   A_revokeLog, A_req>>

\* CA.revokeCertificate: logs the serial and returns true
A_revokeCertificate(serial) ==
    /\ A_revokeLog' = A_revokeLog \cup {serial}
    /\ UNCHANGED <<now, A_build, A_caKeyFile, A_caCertFile, A_users, A_keyCounter,
                   A_challenges, A_req>>

Respond(r, status) ==
    [A_req EXCEPT ![r].pc = "done", ![r].status = status, ![r].user = NoUser]

\* the request bodies a client may send: every well-formed one, and one with
\* each field missing
LoginBodies ==
    [username : Users, challenge : ChallengeSpace, signature : SigSpace]
    \cup {[username |-> Stranger, challenge |-> "c1",
           signature |-> CryptoUtils_createSignature("c1", AttackerKey)],
          [username |-> Empty, challenge |-> "c1",
           signature |-> CryptoUtils_createSignature("c1", AttackerKey)],
          [username |-> "alice", challenge |-> Empty,
           signature |-> CryptoUtils_createSignature("c1", AttackerKey)],
          [username |-> "alice", challenge |-> "c1", signature |-> EmptySig]}

\* POST /login, up to the User.findOne it awaits
A_LoginReceive(r, body) ==
    /\ A_req[r].pc = "idle"
    /\ IF r = 1 THEN TRUE ELSE A_req[r - 1].pc # "idle"
    /\ LET req == [pc        |-> "findOne",
                   username  |-> body.username,
                   challenge |-> body.challenge,
                   signature |-> body.signature,
                   user      |-> NoUser,
                   status    |-> 0,
                   \* history the server itself does not keep
                   replay    |-> body.challenge \in SubmittedChallenges,
                   late      |-> \E t \in IssuedAt(body.challenge) :
                                    now > t + ChallengeTTL,
                   revoked   |-> /\ body.username \in Users
                                 /\ A_users[body.username] # NoUser
                                 /\ A_users[body.username].certificateSerial
                                        \in A_revokeLog,
                   registered |-> /\ body.username \in Users
                                  /\ A_users[body.username] # NoUser,
                   issued    |-> IssuedAt(body.challenge) # {},
                   overlaps  |-> {q \in Reqs : InFlight(q)}]
       IN  A_req' = [A_req EXCEPT ![r] =
              IF \/ body.username = Empty \/ body.challenge = Empty
                 \/ body.signature = EmptySig
              THEN [req EXCEPT !.pc = "done", !.status = 400]
              ELSE req]
    /\ UNCHANGED <<now, A_build, A_caKeyFile, A_caCertFile, A_users, A_keyCounter,
                   A_revokeLog, A_challenges>>

\* POST /login, from the user found to the CA.verifyCertificate it awaits
A_LoginFindOne(r) ==
    /\ A_req[r].pc = "findOne"
    /\ LET user == IF A_req[r].username \in Users
                   THEN A_users[A_req[r].username] ELSE NoUser
       IN  A_req' =
              IF user = NoUser THEN Respond(r, 401)
              ELSE IF user.isRevoked THEN Respond(r, 401)
              ELSE IF now > user.expiresAt THEN Respond(r, 401)
              ELSE [A_req EXCEPT ![r].pc = "verifyCert", ![r].user = user]
    /\ UNCHANGED <<now, A_build, A_caKeyFile, A_caCertFile, A_users, A_keyCounter,
                   A_revokeLog, A_challenges>>

\* POST /login, from the CA's answer to the user.save() it awaits
A_LoginVerifyCert(r) ==
    /\ A_req[r].pc = "verifyCert"
    /\ LET req         == A_req[r]
           isValidCert == A_verifyCertificate(req.user.certificate, now)
       IN  A_req' =
              IF isValidCert = "throws" THEN Respond(r, 500)
              ELSE IF isValidCert = "false" THEN Respond(r, 401)
              ELSE IF ~CryptoUtils_verifySignature(req.challenge, req.signature,
                                                   req.user.publicKey)
                   THEN Respond(r, 401)
              ELSE [A_req EXCEPT ![r].pc = "save"]
    /\ UNCHANGED <<now, A_build, A_caKeyFile, A_caCertFile, A_users, A_keyCounter,
                   A_revokeLog, A_challenges>>

\* POST /login, from the saved lastLogin to the token in the response
A_LoginSave(r) ==
    /\ A_req[r].pc = "save"
    /\ A_users' = [A_users EXCEPT ![A_req[r].username].lastLogin = now]
    /\ A_req' = Respond(r, 200)
    /\ UNCHANGED <<now, A_build, A_caKeyFile, A_caCertFile, A_keyCounter,
                   A_revokeLog, A_challenges>>

\* the wall clock advances
Tick ==
    /\ now < MaxTime
    /\ now' = now + 1
    /\ UNCHANGED varsA

InitLogin ==
    /\ now = 0
    /\ A_build \in {"committed", "fixed"}
    /\ A_caKeyFile = KeyPem(CAKey)
    /\ A_caCertFile = A_rootCertificate(CAKey, 0)
    /\ A_users = [u \in Users |-> NoUser]
    /\ A_keyCounter = 0
    /\ A_revokeLog = {}
    /\ A_challenges = {}
    /\ A_req = [r \in Reqs |-> IdleReq]
    /\ A_init = [c \in InitCallers |-> IdleCall]
    /\ A_lastVerify = NoVerify
    /\ InitB
    /\ InitS
    /\ InitF
    /\ InitN

StepLogin ==
    \/ \E u \in Users, s \in A_SerialSpace : A_Register(u, s)
    \/ \E c \in ChallengeSpace : A_Challenge(c)
    \/ \E s \in A_SerialSpace : A_revokeCertificate(s)
    \/ \E r \in Reqs, body \in LoginBodies : A_LoginReceive(r, body)
    \/ \E r \in Reqs : A_LoginFindOne(r)
    \/ \E r \in Reqs : A_LoginVerifyCert(r)
    \/ \E r \in Reqs : A_LoginSave(r)
    \/ Tick

NextLogin == StepLogin /\ UNCHANGED <<A_init, A_lastVerify, varsB, varsS, varsF, varsW, varsN, varsR>>

SpecLogin == InitLogin /\ [][NextLogin]_vars

----------------------------------------------------------------------------
(* Properties of the challenge-response login (SpecLogin) *)

LoggedIn(r) == Answered(r) /\ A_req[r].status = 200

C4_LoginOnlyWithMatchingSignature ==
    \A r \in Reqs :
        LoggedIn(r) =>
            /\ A_req[r].username \in Users
            /\ A_users[A_req[r].username] # NoUser
            /\ A_req[r].signature.key =
                   A_users[A_req[r].username].certificate.publicKey
            /\ A_req[r].signature.data = A_req[r].challenge

\* C4 witness: one login succeeded, and another one for a registered user was
\* refused although its signature was made with that user's key, over another nonce
C4_Witness ==
    \E r1, r2 \in Reqs :
        /\ LoggedIn(r1)
        /\ Answered(r2) /\ A_req[r2].status = 401
        /\ A_req[r2].username \in Users
        /\ A_users[A_req[r2].username] # NoUser
        /\ A_req[r2].signature.key = A_users[A_req[r2].username].publicKey
        /\ A_req[r2].signature.data # A_req[r2].challenge

----------------------------------------------------------------------------
(* Start-up of back end A: the CA directory as the process finds it *)

InitCAInit ==
    /\ now = 0
    /\ A_build = "committed"
    /\ \/ A_caKeyFile = NoFile /\ A_caCertFile = NoFile
       \/ A_caKeyFile = KeyPem(CAKey) /\ A_caCertFile = A_rootCertificate(CAKey, 0)
    /\ A_users = [u \in Users |-> NoUser]
    /\ A_keyCounter = 0
    /\ A_revokeLog = {}
    /\ A_challenges = {}
    /\ A_req = [r \in Reqs |-> IdleReq]
    /\ A_init = [c \in InitCallers |-> IdleCall]
    /\ A_lastVerify = NoVerify
    /\ InitB
    /\ InitS
    /\ InitF
    /\ InitN

StepCAInit ==
    \/ \E c \in InitCallers : A_InitCall(c)
    \/ \E c \in InitCallers : A_EnsureDir(c)
    \/ \E c \in InitCallers : A_PathExistsKey(c)
    \/ \E c \in InitCallers : A_PathExistsCert(c)
    \/ \E c \in InitCallers : A_WriteKey(c)
    \/ \E c \in InitCallers : A_WriteCert(c)

NextCAInit == StepCAInit /\ UNCHANGED <<A_lastVerify, varsB, varsS, varsF, varsW, varsN, varsR>>

SpecCAInit == InitCAInit /\ [][NextCAInit]_vars

\* C7: however the calls of initializeCA interleave, at most one root key pair
\* is ever created, and none when a root is already stored
C7_OnlyOneRootCreated ==
    Cardinality(RootsCreated) <= 1

----------------------------------------------------------------------------
(* The CA of back end A called directly: issue, revoke, verify *)

\* a certificate for alice made outside the CA, signed with the attacker's key
ForgedCert ==
    CryptoUtils_createCertificate(AttackerKey, AttackerKey, "alice", CASubject, 1, 0)

\* the certificates a caller can present: those on file, a forged one, garbage
PresentableA ==
    {A_users[u].certificate : u \in {v \in Users : A_users[v] # NoUser}}
    \cup {ForgedCert, CorruptPem}

\* CA.verifyCertificate(userCert), with what the revocation log held at the call
A_VerifyCall(cert) ==
    /\ A_lastVerify' = [called  |-> TRUE,
                        cert    |-> cert,
                        at      |-> now,
                        revoked |-> cert.kind = "cert" /\ cert.serialNumber \in A_revokeLog,
                        answer  |-> A_verifyCertificate(cert, now)]
    /\ UNCHANGED <<now, varsA, A_init>>

StepCA ==
    \/ /\ \E u \in Users, s \in A_SerialSpace : A_Register(u, s)
       /\ UNCHANGED <<A_init, A_lastVerify>>
    \/ /\ \E s \in A_SerialSpace : A_revokeCertificate(s)
       /\ UNCHANGED <<A_init, A_lastVerify>>
    \/ \E cert \in PresentableA : A_VerifyCall(cert)
    \/ Tick /\ UNCHANGED <<A_init, A_lastVerify>>

NextCA == StepCA /\ UNCHANGED <<varsB, varsS, varsF, varsW, varsN, varsR>>

SpecCA == InitLogin /\ [][NextCA]_vars

InWindow(cert, t) == cert.notBefore <= t /\ t <= cert.notAfter

SignedByCA(cert) ==
    A_caCertFile.kind = "cert" /\ cert.signedBy = A_caCertFile.publicKey

\* C9: verify answers valid exactly when now is inside the validity window, the
\* serial has not been revoked, and the signature validates against the CA key
C9_ValidIffActive ==
    A_lastVerify.called =>
        ( A_lastVerify.answer = "true"
          <=> /\ A_lastVerify.cert.kind = "cert"
              /\ InWindow(A_lastVerify.cert, A_lastVerify.at)
              /\ ~A_lastVerify.revoked
              /\ SignedByCA(A_lastVerify.cert) )

----------------------------------------------------------------------------
(* Back end B: the process, its CA, registration, revocation, verification *)

InitCertB ==
    /\ now = 0
    /\ A_build = "committed"
    /\ A_caKeyFile = NoFile
    /\ A_caCertFile = NoFile
    /\ A_users = [u \in Users |-> NoUser]
    /\ A_keyCounter = 0
    /\ A_revokeLog = {}
    /\ A_challenges = {}
    /\ A_req = [r \in Reqs |-> IdleReq]
    /\ A_init = [c \in InitCallers |-> IdleCall]
    /\ A_lastVerify = NoVerify
    /\ InitB
    /\ InitS
    /\ InitF
    /\ InitN

TickB == now < MaxTime /\ now' = now + 1 /\ UNCHANGED varsB

StepCertB ==
    \/ \E dbOk \in BOOLEAN : B_initializeApp(dbOk)
    \/ B_shutdown
    \/ \E what \in {NoFile, CorruptPem} : B_DamageKeyFile(what)
    \/ \E u \in B_Users, pk \in B_ClientKeys : B_Register(u, pk)
    \/ \E cert \in PresentableB, dbOk \in BOOLEAN : B_VerifyCall(cert, dbOk)
    \/ \E str \in RevocableB : B_revokeCertificate(str)
    \/ TickB

NextCertB == StepCertB /\ UNCHANGED <<varsA, A_init, A_lastVerify, varsS, varsF, varsW, varsN, varsR>>

SpecCertB == InitCertB /\ [][NextCertB]_vars

\* C3: once revoke(S) has returned, a verify of the certificate whose serial is S
\* (S as the CA returned it at issue, or as read from the certificate) reports
\* the certificate as revoked and never as valid.
C3_RevokedReportedRevoked ==
    (B_lastVerify.called /\ (B_lastVerify.revokedIssued \/ B_lastVerify.revokedRead))
        => (B_lastVerify.answer.revoked /\ ~B_lastVerify.answer.valid)

\* C8: no two certificates issued by the CA carry the same serial number, also
\* when the process has been restarted between the two issue calls.
C8_SerialsUnique ==
    \A i, j \in DOMAIN B_issued :
        i # j => B_issued[i].serialNumber # B_issued[j].serialNumber

\* C10: when the stored root was damaged at start-up (the root key missing or
\* unparsable), start-up aborts: the process never comes up to issue or verify.
C10_DamagedRootAbortsStartup ==
    B_damagedAtBoot => B_proc # "up"

\* C11: the revocation set only grows: no step removes a serial from it, and a
\* revoke of a serial that is already in it leaves it as it was.
C11_RevocationOnlyGrows ==
    [][ /\ B_revoked \subseteq B_revoked'
        /\ \A str \in B_revoked :
              (B_revokeCalls' = Append(B_revokeCalls, str)) => B_revoked' = B_revoked
      ]_vars

\* C11 witness: a serial was revoked twice and is in the set, and the process has
\* since been stopped
C11_Witness ==
    /\ Len(B_revokeCalls) = 2
    /\ B_revokeCalls[1] = B_revokeCalls[2]
    /\ B_revokeCalls[1] \in B_revoked
    /\ B_proc = "down"

----------------------------------------------------------------------------
(* Sealed messages and files: value spaces and the crypto helpers *)

MaxStored == 1
\* records kept in each collection or table

\* the registered users that send, receive and share
Parties == {"alice", "bob", "carol"}

\* key pair of a party: the public key on file, the private key at the client
PartyKey(u) == CASE u = "alice" -> 1 [] u = "bob" -> 2 [] OTHER -> 3

PrivateKeys == {PartyKey(u) : u \in Parties}

\* message and file contents
Contents == {[text |-> "p1"], [text |-> "p2"]}

\* what a decryption of altered ciphertext yields when it does not throw
Garbage == [garbled |-> TRUE]

NoContent == [none |-> TRUE]

Throws == [ok |-> FALSE]

Returns(x) == [ok |-> TRUE, value |-> x]

\* how a decryption of altered ciphertext ends: bad padding, or garbled bytes
Lucks == {"throws", "garbage"}

\* generateAESKey: 32 random bytes
AESKey(n) == [aes |-> n]

\* encryptAES: aes-256-cbc of data under key
CryptoUtils_encryptAES(data, key) ==
    [kind |-> "aes", key |-> key, data |-> data, altered |-> FALSE]

\* decryptAES: the data under the right key and untouched ciphertext; otherwise
\* final() throws on the padding or the bytes come out garbled
CryptoUtils_decryptAES(encryptedData, key, luck) ==
    IF encryptedData.kind # "aes" THEN Throws
    ELSE IF encryptedData.key = key /\ ~encryptedData.altered
         THEN Returns(encryptedData.data)
    ELSE IF luck = "throws" THEN Throws ELSE Returns(Garbage)

\* encryptRSA / publicEncrypt: OAEP under publicKey
CryptoUtils_encryptRSA(data, publicKey) ==
    [kind |-> "rsa", key |-> publicKey, data |-> data, altered |-> FALSE]

\* decryptRSA / privateDecrypt: throws unless privateKey pairs with the public
\* key and the ciphertext is untouched
CryptoUtils_decryptRSA(encryptedData, privateKey) ==
    IF encryptedData.kind = "rsa" /\ encryptedData.key = privateKey
       /\ ~encryptedData.altered
    THEN Returns(encryptedData.data) ELSE Throws

\* generateHash: sha256 hex digest
CryptoUtils_generateHash(data) == [sha256 |-> data]

\* a response without content
Fail(status) == [status |-> status, content |-> NoContent]

----------------------------------------------------------------------------
(* Messages of back end A (backend/routes/message.js) *)

\* aesKey.toString('hex') and Buffer.from(aesKeyHex, 'hex')
Buffer_toString_hex(buffer) == [hex |-> buffer]

Buffer_from_hex(text) == text.hex

A_sendMessage_KeyForSender(sender, recipient, content, privateKey, n) ==
    LET aesKey == AESKey(n)
    IN  [sender           |-> sender,
         recipient        |-> recipient,
         encryptedContent |-> CryptoUtils_encryptAES(content, aesKey),
         encryptedKey     |-> CryptoUtils_encryptRSA(Buffer_toString_hex(aesKey),
                                                     PartyKey(sender)),
         digitalSignature |-> CryptoUtils_createSignature(content, privateKey),
         messageHash      |-> CryptoUtils_generateHash(content),
         isRead           |-> FALSE,
         readAt           |-> Null,
         plain            |-> content,
         signedWith       |-> privateKey]

\* POST /send: the document the route saves
A_sendMessage(sender, recipient, content, privateKey, n) ==
    LET aesKey == AESKey(n)
    IN  [sender           |-> sender,
         recipient        |-> recipient,
         encryptedContent |-> CryptoUtils_encryptAES(content, aesKey),
         encryptedKey     |-> CryptoUtils_encryptRSA(Buffer_toString_hex(aesKey),
                                                     PartyKey(recipient)),
         digitalSignature |-> CryptoUtils_createSignature(content, privateKey),
         messageHash      |-> CryptoUtils_generateHash(content),
         isRead           |-> FALSE,
         readAt           |-> Null,
         \* what was sealed and with which key, for the properties
         plain            |-> content,
         signedWith       |-> privateKey]

A_Send(sender, recipientUsername, content, privateKey) ==
    /\ Len(A_messages) < MaxStored
    /\ A_messages' = Append(A_messages,
          A_sendMessage(sender, recipientUsername, content, privateKey,
                        Len(A_messages) + 1))
    /\ S_req' = [route |-> "A/message/send", caller |-> sender,
                 privateKey |-> privateKey]
    /\ S_resp' = [route |-> "A/message/send", status |-> 200, content |-> NoContent]
    /\ UNCHANGED <<A_files, B_messages, B_files, B_shares, B_audit>>

A_viewMessage_NoChecks(message, caller, privateKey, luck) ==
    IF message.recipient # caller THEN Fail(403)
    ELSE LET aesKeyHex == CryptoUtils_decryptRSA(message.encryptedKey, privateKey)
         IN  IF ~aesKeyHex.ok THEN Fail(500)
             ELSE LET decryptedContent ==
                          CryptoUtils_decryptAES(message.encryptedContent,
                              Buffer_from_hex(aesKeyHex.value), luck)
                  IN  IF ~decryptedContent.ok THEN Fail(500)
                      ELSE [status |-> 200, content |-> decryptedContent.value]

\* POST /view/:messageId: the answer of the route
A_viewMessage(message, caller, privateKey, luck) ==
    IF message.recipient # caller THEN Fail(403)
    ELSE LET aesKeyHex == CryptoUtils_decryptRSA(message.encryptedKey, privateKey)
         IN  IF ~aesKeyHex.ok THEN Fail(500)
             ELSE LET decryptedContent ==
                          CryptoUtils_decryptAES(message.encryptedContent,
                              Buffer_from_hex(aesKeyHex.value), luck)
                  IN  IF ~decryptedContent.ok THEN Fail(500)
                      ELSE IF ~CryptoUtils_verifySignature(decryptedContent.value,
                                   message.digitalSignature, PartyKey(message.sender))
                           THEN Fail(400)
                      ELSE IF CryptoUtils_generateHash(decryptedContent.value)
                                  # message.messageHash
                           THEN Fail(400)
                      ELSE [status |-> 200, content |-> decryptedContent.value]

A_View(caller, id, privateKey, luck) ==
    /\ id \in DOMAIN A_messages
    /\ LET answer == A_viewMessage(A_messages[id], caller, privateKey, luck)
       IN  /\ S_resp' = [route |-> "A/message/view", id |-> id, caller |-> caller,
                         altered |-> A_messages[id].encryptedContent.altered,
                         privateKey |-> privateKey, status |-> answer.status,
                         content |-> answer.content]
           /\ A_messages' = IF answer.status = 200 /\ ~A_messages[id].isRead
                            THEN [A_messages EXCEPT ![id].isRead = TRUE,
                                                    ![id].readAt = [at |-> now]]
                            ELSE A_messages
    /\ S_req' = [route |-> "A/message/view", caller |-> caller,
                 privateKey |-> privateKey]
    /\ UNCHANGED <<A_files, B_messages, B_files, B_shares, B_audit>>

\* the stored ciphertext of a message is altered (database tampering)
A_AlterMessage(id) ==
    /\ id \in DOMAIN A_messages
    /\ ~A_messages[id].encryptedContent.altered
    /\ A_messages' = [A_messages EXCEPT ![id].encryptedContent.altered = TRUE]
    /\ UNCHANGED <<A_files, B_messages, B_files, B_shares, B_audit, S_req, S_resp>>

----------------------------------------------------------------------------
(* Files of back end A (backend/routes/file.js) *)

\* the bytes handed to a signer or verifier: of a plaintext, or of a ciphertext
PlainBytes(x) == [plain |-> x]

CipherBytes(c) == [cipher |-> c]

\* crypto.createSign('SHA256').update(data).sign(privateKey, 'hex')
crypto_sign(data, privateKey) == [key |-> privateKey, data |-> data]

\* crypto.createVerify('SHA256') ... verify(publicKey, signature, 'hex')
crypto_verify(data, signature, publicKey) ==
    signature.key = publicKey /\ signature.data = data

\* POST /upload: the document the route saves
A_uploadFile(sender, recipient, fileContent, privateKey) ==
    [senderId    |-> sender,
     recipientId |-> recipient,
     content     |-> CryptoUtils_encryptRSA(fileContent, PartyKey(recipient)),
     signature   |-> crypto_sign(PlainBytes(fileContent), privateKey),
     plain       |-> fileContent,
     signedWith  |-> privateKey]

A_Upload(sender, recipientUsername, fileContent, privateKey) ==
    /\ Len(A_files) < MaxStored
    /\ A_files' = Append(A_files,
          A_uploadFile(sender, recipientUsername, fileContent, privateKey))
    /\ S_req' = [route |-> "A/file/upload", caller |-> sender,
                 privateKey |-> privateKey]
    /\ S_resp' = [route |-> "A/file/upload", status |-> 200, content |-> NoContent]
    /\ UNCHANGED <<A_messages, B_messages, B_files, B_shares, B_audit>>

\* POST /download/:fileId: the answer of the route
A_downloadFile(file, caller, privateKey) ==
    IF file.recipientId # caller THEN Fail(403)
    ELSE LET contentBuffer == file.content
             isValid == crypto_verify(CipherBytes(contentBuffer), file.signature,
                                      PartyKey(file.senderId))
         IN  IF ~isValid THEN Fail(400)
             ELSE LET decipher == CryptoUtils_decryptRSA(contentBuffer, privateKey)
                  IN  IF ~decipher.ok THEN Fail(500)
                      ELSE [status |-> 200, content |-> decipher.value]

A_Download(caller, id, privateKey) ==
    /\ id \in DOMAIN A_files
    /\ LET answer == A_downloadFile(A_files[id], caller, privateKey)
       IN  S_resp' = [route |-> "A/file/download", id |-> id, caller |-> caller,
                      altered |-> A_files[id].content.altered,
                      privateKey |-> privateKey, status |-> answer.status,
                      content |-> answer.content]
    /\ S_req' = [route |-> "A/file/download", caller |-> caller,
                 privateKey |-> privateKey]
    /\ UNCHANGED <<A_messages, A_files, B_messages, B_files, B_shares, B_audit>>

\* the stored ciphertext of a file is altered (database tampering)
A_AlterFile(id) ==
    /\ id \in DOMAIN A_files
    /\ ~A_files[id].content.altered
    /\ A_files' = [A_files EXCEPT ![id].content.altered = TRUE]
    /\ UNCHANGED <<A_messages, B_messages, B_files, B_shares, B_audit, S_req, S_resp>>

----------------------------------------------------------------------------
(* CryptoUtils and messages of back end B (utils/certificate, routes/messages) *)

\* a request without the optional privateKey parameter
NoPrivateKey == 0

\* signData: sha256 RSA signature, base64
B_signData(data, privateKeyPem) == [key |-> privateKeyPem, data |-> data]

\* verifySignature: false also when anything throws
B_verifySignature(data, signature, publicKeyPem) ==
    signature.key = publicKeyPem /\ signature.data = data

\* encryptWithPublicKey: RSA-OAEP, base64
B_encryptWithPublicKey(data, publicKeyPem) ==
    [kind |-> "rsa", key |-> publicKeyPem, data |-> data, altered |-> FALSE]

\* decryptWithPrivateKey: throws unless the key pairs and the ciphertext is whole
B_decryptWithPrivateKey(encryptedData, privateKeyPem) ==
    IF encryptedData.kind = "rsa" /\ encryptedData.key = privateKeyPem
       /\ ~encryptedData.altered
    THEN Returns(encryptedData.data) ELSE Throws

\* encryptAES / decryptAES of back end B: aes-256-cbc, base64
B_encryptAES(data, key) ==
    [kind |-> "aes", key |-> key, data |-> data, altered |-> FALSE]

B_decryptAES(encryptedData, key, luck) ==
    IF encryptedData.kind # "aes" THEN Throws
    ELSE IF encryptedData.key = key /\ ~encryptedData.altered
         THEN Returns(encryptedData.data)
    ELSE IF luck = "throws" THEN Throws ELSE Returns(Garbage)

B_hashData(data) == [sha256 |-> data]

\* auditLog: a response sent with res.json leaves a row whose details hold
\* req.query; res.send leaves none
AuditRow(action, query) == [action |-> action, query |-> query]

\* POST /api/messages/send: the row the route inserts
B_sendMessage(sender, recipient, content, privateKey) ==
    [sender_id         |-> sender,
     recipient_id      |-> recipient,
     encrypted_content |-> B_encryptWithPublicKey(content, PartyKey(recipient)),
     signature         |-> B_signData(content, privateKey),
     message_hash      |-> B_hashData(content),
     is_read           |-> FALSE,
     read_at           |-> Null,
     plain             |-> content,
     signedWith        |-> privateKey]

B_Send(sender, recipientUsername, content, privateKey) ==
    /\ Len(B_messages) < MaxStored
    /\ recipientUsername # sender              \* else 400
    /\ B_messages' = Append(B_messages,
          B_sendMessage(sender, recipientUsername, content, privateKey))
    /\ S_req' = [route |-> "B/message/send", caller |-> sender,
                 privateKey |-> privateKey]
    /\ S_resp' = [route |-> "B/message/send", status |-> 201, content |-> NoContent]
    /\ B_audit' = B_audit \cup {AuditRow("MESSAGE_SEND", [privateKey |-> NoPrivateKey])}
    /\ UNCHANGED <<A_messages, A_files, B_files, B_shares>>

\* GET /api/messages/:id: the answer of checkResourceAccess and the route
B_getMessage(message, caller, privateKey) ==
    IF caller \notin {message.sender_id, message.recipient_id} THEN Fail(403)
    ELSE IF privateKey # NoPrivateKey /\ message.recipient_id = caller
    THEN LET decryptedContent ==
                 B_decryptWithPrivateKey(message.encrypted_content, privateKey)
         IN  IF ~decryptedContent.ok THEN Fail(400)
             ELSE IF B_hashData(decryptedContent.value) # message.message_hash
                  THEN Fail(400)
             ELSE [status  |-> 200,
                   content |-> decryptedContent.value,
                   signatureValid |->
                       IF B_verifySignature(decryptedContent.value, message.signature,
                                            PartyKey(message.sender_id))
                       THEN "true" ELSE "false"]
    ELSE [status |-> 200, content |-> NoContent, signatureValid |-> "null"]

B_Get(caller, id, privateKey) ==
    /\ id \in DOMAIN B_messages
    /\ LET answer == B_getMessage(B_messages[id], caller, privateKey)
       IN  /\ S_resp' = [route |-> "B/message/get", id |-> id, caller |-> caller,
                         altered |-> B_messages[id].encrypted_content.altered,
                         privateKey |-> privateKey, status |-> answer.status,
                         content |-> answer.content,
                         signatureValid |-> IF answer.status = 200
                                            THEN answer.signatureValid ELSE "null"]
           /\ B_messages' = IF /\ answer.status = 200
                               /\ answer.content # NoContent
                               /\ ~B_messages[id].is_read
                            THEN [B_messages EXCEPT ![id].is_read = TRUE,
                                                    ![id].read_at = [at |-> now]]
                            ELSE B_messages
    /\ S_req' = [route |-> "B/message/get", caller |-> caller,
                 privateKey |-> privateKey]
    /\ UNCHANGED <<A_messages, A_files, B_files, B_shares, B_audit>>

\* the stored ciphertext of a message is altered (database tampering)
B_AlterMessage(id) ==
    /\ id \in DOMAIN B_messages
    /\ ~B_messages[id].encrypted_content.altered
    /\ B_messages' = [B_messages EXCEPT ![id].encrypted_content.altered = TRUE]
    /\ UNCHANGED <<A_messages, A_files, B_files, B_shares, B_audit, S_req, S_resp>>

----------------------------------------------------------------------------
(* Files of back end B (routes/files) *)

\* Buffer.toString('base64') and Buffer.from(text, 'base64'); the decoder is
\* lenient, so text that is no base64 still gives bytes
Base64Encode(bytes) == [b64 |-> bytes]

Base64Decode(text) ==
    IF \E c \in Contents : text = Base64Encode(c)
    THEN CHOOSE c \in Contents : text = Base64Encode(c)
    ELSE Garbage

NoSignature == [key |-> NoPrivateKey, data |-> NoContent]

\* POST /api/files/upload: the row the route inserts and the file it writes
B_uploadFile(owner, fileData, signFile, privateKey, n) ==
    LET aesKey == AESKey(n)
    IN  [owner_id      |-> owner,
         stored        |-> B_encryptAES(Base64Encode(fileData), aesKey),
         encrypted_key |-> B_encryptWithPublicKey(aesKey, PartyKey(owner)),
         file_hash     |-> B_hashData(fileData),
         is_signed     |-> signFile,
         signature     |-> IF signFile /\ privateKey # NoPrivateKey
                           THEN B_signData(Base64Encode(fileData), privateKey)
                           ELSE NoSignature,
         plain         |-> fileData]

B_Upload(owner, fileData, signFile, privateKey) ==
    /\ Len(B_files) < MaxStored
    /\ B_files' = Append(B_files,
          B_uploadFile(owner, fileData, signFile, privateKey, Len(B_files) + 1))
    /\ S_req' = [route |-> "B/file/upload", caller |-> owner,
                 privateKey |-> privateKey]
    /\ S_resp' = [route |-> "B/file/upload", status |-> 201, content |-> NoContent]
    /\ B_audit' = B_audit \cup {AuditRow("FILE_UPLOAD", [privateKey |-> NoPrivateKey])}
    /\ UNCHANGED <<A_messages, A_files, B_messages, B_shares>>

\* the file_shares rows of file id for user u
SharesOf(id, u) == {sh \in B_shares : sh.file_id = id /\ sh.shared_with_user_id = u}

\* GET /api/files/:id/download: the answer of checkResourceAccess and the route
B_downloadFile(id, caller, privateKey, luck) ==
    LET file == B_files[id]
    IN  IF file.owner_id # caller /\ SharesOf(id, caller) = {} THEN Fail(403)
        ELSE IF privateKey = NoPrivateKey THEN Fail(400)
        ELSE LET user_encrypted_key ==
                     IF file.owner_id = caller THEN file.encrypted_key
                     ELSE (CHOOSE sh \in SharesOf(id, caller) : TRUE).encrypted_file_key
                 aesKey == B_decryptWithPrivateKey(user_encrypted_key, privateKey)
             IN  IF ~aesKey.ok THEN Fail(500)
                 ELSE LET decryptedData == B_decryptAES(file.stored, aesKey.value, luck)
                      IN  IF ~decryptedData.ok THEN Fail(500)
                          ELSE LET fileBuffer == Base64Decode(decryptedData.value)
                               IN  IF B_hashData(fileBuffer) # file.file_hash
                                   THEN Fail(400)
                                   ELSE [status |-> 200, content |-> fileBuffer]

B_Download(caller, id, privateKey, luck) ==
    /\ id \in DOMAIN B_files
    /\ LET answer == B_downloadFile(id, caller, privateKey, luck)
       IN  /\ S_resp' = [route |-> "B/file/download", id |-> id, caller |-> caller,
                         altered |-> B_files[id].stored.altered,
                         privateKey |-> privateKey, status |-> answer.status,
                         content |-> answer.content]
           /\ B_audit' = IF answer.status \in {400, 500}
                         THEN B_audit \cup {AuditRow("FILE_DOWNLOAD",
                                                     [privateKey |-> privateKey])}
                         ELSE B_audit
    /\ S_req' = [route |-> "B/file/download", caller |-> caller,
                 privateKey |-> privateKey]
    /\ UNCHANGED <<A_messages, A_files, B_messages, B_files, B_shares>>

B_shareFile_ForOwner(id, caller, recipient, privateKey) ==
    LET file == B_files[id]
        aesKey == B_decryptWithPrivateKey(file.encrypted_key, privateKey)
    IN  IF file.owner_id # caller THEN Throws
        ELSE IF ~aesKey.ok THEN Throws
        ELSE Returns([file_id             |-> id,
                      shared_with_user_id |-> recipient,
                      shared_by_user_id   |-> caller,
                      encrypted_file_key  |->
                          B_encryptWithPublicKey(aesKey.value, PartyKey(caller))])

\* POST /api/files/:id/share: the file_shares row the route writes, if it gets there
B_shareFile(id, caller, recipient, privateKey) ==
    LET file == B_files[id]
        aesKey == B_decryptWithPrivateKey(file.encrypted_key, privateKey)
    IN  IF file.owner_id # caller THEN Throws
        ELSE IF ~aesKey.ok THEN Throws
        ELSE Returns([file_id             |-> id,
                      shared_with_user_id |-> recipient,
                      shared_by_user_id   |-> caller,
                      encrypted_file_key  |->
                          B_encryptWithPublicKey(aesKey.value, PartyKey(recipient))])

B_Share(caller, id, recipientUsername, privateKey) ==
    /\ id \in DOMAIN B_files
    /\ B_files[id].owner_id = caller \/ SharesOf(id, caller) # {}   \* else 403
    /\ privateKey # NoPrivateKey                                    \* else 400
    /\ LET row == B_shareFile(id, caller, recipientUsername, privateKey)
       IN  /\ B_shares' = IF row.ok
                          THEN (B_shares \ SharesOf(id, recipientUsername))
                               \cup {row.value}
                          ELSE B_shares
           /\ S_resp' = [route |-> "B/file/share", id |-> id, caller |-> caller,
                         status |-> IF row.ok THEN 200 ELSE 500,
                         content |-> NoContent]
    /\ B_audit' = B_audit \cup {AuditRow("FILE_SHARE", [privateKey |-> NoPrivateKey])}
    /\ S_req' = [route |-> "B/file/share", caller |-> caller,
                 privateKey |-> privateKey]
    /\ UNCHANGED <<A_messages, A_files, B_messages, B_files>>

\* the stored ciphertext of a file is altered (the file on disk is tampered with)
B_AlterFile(id) ==
    /\ id \in DOMAIN B_files
    /\ ~B_files[id].stored.altered
    /\ B_files' = [B_files EXCEPT ![id].stored.altered = TRUE]
    /\ UNCHANGED <<A_messages, A_files, B_messages, B_shares, B_audit, S_req, S_resp>>

\* POST /login of the earlier auth route: the server signs the user name with the
\* private key in the body and verifies the result against the key on file
A_loginWithPrivateKey(username, privateKey) ==
    LET signature == crypto_sign(PlainBytes(username), privateKey)
        isValid == crypto_verify(PlainBytes(username), signature, PartyKey(username))
    IN  IF ~isValid THEN Fail(401) ELSE [status |-> 200, content |-> NoContent]

A_PrivateKeyLogin(username, privateKey) ==
    /\ S_req' = [route |-> "A/login", caller |-> username, privateKey |-> privateKey]
    /\ S_resp' = [route |-> "A/login",
                  status |-> A_loginWithPrivateKey(username, privateKey).status,
                  content |-> NoContent]
    /\ UNCHANGED <<A_messages, A_files, B_messages, B_files, B_shares, B_audit>>

----------------------------------------------------------------------------
(* Sealing and opening: the message and file routes of both back ends *)

InitSeal ==
    /\ now = 0
    /\ A_build = "committed"
    /\ A_caKeyFile = NoFile
    /\ A_caCertFile = NoFile
    /\ A_users = [u \in Users |-> NoUser]
    /\ A_keyCounter = 0
    /\ A_revokeLog = {}
    /\ A_challenges = {}
    /\ A_req = [r \in Reqs |-> IdleReq]
    /\ A_init = [c \in InitCallers |-> IdleCall]
    /\ A_lastVerify = NoVerify
    /\ InitB
    /\ InitS
    /\ InitF
    /\ InitN

\* one deployment and one collection is exercised in a behaviour
OnlyAMessages == A_files = <<>> /\ B_messages = <<>> /\ B_files = <<>>

OnlyAFiles == A_messages = <<>> /\ B_messages = <<>> /\ B_files = <<>>

OnlyBMessages == A_messages = <<>> /\ A_files = <<>> /\ B_files = <<>>

OnlyBFiles == A_messages = <<>> /\ A_files = <<>> /\ B_messages = <<>>

StepSeal ==
    \/ /\ OnlyAMessages
       /\ \E u, v \in Parties, c \in Contents, k \in PrivateKeys : A_Send(u, v, c, k)
    \/ \E u \in Parties, id \in 1..MaxStored, k \in PrivateKeys, luck \in Lucks :
          A_View(u, id, k, luck)
    \/ \E id \in 1..MaxStored : A_AlterMessage(id)
    \/ /\ OnlyAFiles
       /\ \E u, v \in Parties, c \in Contents, k \in PrivateKeys : A_Upload(u, v, c, k)
    \/ \E u \in Parties, id \in 1..MaxStored, k \in PrivateKeys : A_Download(u, id, k)
    \/ \E id \in 1..MaxStored : A_AlterFile(id)
    \/ /\ OnlyBMessages
       /\ \E u, v \in Parties, c \in Contents, k \in PrivateKeys : B_Send(u, v, c, k)
    \/ \E u \in Parties, id \in 1..MaxStored, k \in PrivateKeys \cup {NoPrivateKey} :
          B_Get(u, id, k)
    \/ \E id \in 1..MaxStored : B_AlterMessage(id)
    \/ /\ OnlyBFiles
       /\ \E u \in Parties, c \in Contents, sign \in BOOLEAN,
             k \in PrivateKeys \cup {NoPrivateKey} : B_Upload(u, c, sign, k)
    \/ \E u \in Parties, id \in 1..MaxStored, k \in PrivateKeys \cup {NoPrivateKey},
          luck \in Lucks : B_Download(u, id, k, luck)
    \/ \E u, v \in Parties, id \in 1..MaxStored, k \in PrivateKeys \cup {NoPrivateKey} :
          B_Share(u, id, v, k)
    \/ \E id \in 1..MaxStored : B_AlterFile(id)
    \/ \E u \in Parties, k \in PrivateKeys : A_PrivateKeyLogin(u, k)

NextSeal == StepSeal /\ UNCHANGED <<now, varsA, A_init, A_lastVerify, varsB, varsF, varsW, varsN, varsR>>

SpecSeal == InitSeal /\ [][NextSeal]_vars

----------------------------------------------------------------------------
(* Properties of sealing and opening (SpecSeal) *)

OpenRoutes == {"A/message/view", "A/file/download", "B/message/get", "B/file/download"}

\* the last request was an attempt to open a stored message or file
Opened == S_resp.route \in OpenRoutes

\* the attempt handed content to the caller
HandedContent == Opened /\ S_resp.status = 200 /\ S_resp.content # NoContent

\* the stored record the last attempt was about
OpenedRecord ==
    CASE S_resp.route = "A/message/view"  -> A_messages[S_resp.id]
      [] S_resp.route = "A/file/download" -> A_files[S_resp.id]
      [] S_resp.route = "B/message/get"   -> B_messages[S_resp.id]
      [] OTHER                            -> B_files[S_resp.id]

\* the sender (for a file of back end B, the owner) of the opened record
OpenedSender ==
    CASE S_resp.route = "A/message/view"  -> A_messages[S_resp.id].sender
      [] S_resp.route = "A/file/download" -> A_files[S_resp.id].senderId
      [] S_resp.route = "B/message/get"   -> B_messages[S_resp.id].sender_id
      [] OTHER                            -> B_files[S_resp.id].owner_id

\* the stored signature was made with the sender's own private key
SenderSignatureGood ==
    CASE S_resp.route = "A/message/view"  ->
             A_messages[S_resp.id].digitalSignature.key = PartyKey(OpenedSender)
      [] S_resp.route = "A/file/download" ->
             A_files[S_resp.id].signature.key = PartyKey(OpenedSender)
      [] S_resp.route = "B/message/get"   ->
             B_messages[S_resp.id].signature.key = PartyKey(OpenedSender)
      [] OTHER ->
             B_files[S_resp.id].is_signed =>
                 B_files[S_resp.id].signature.key = PartyKey(OpenedSender)

\* C12: a message or file whose sender signature does not verify under the
\* sender's public key is never handed to the caller as content.
C12_BadSignatureNeverContent ==
    HandedContent => SenderSignatureGood

\* the last request asked for decryption: every open route does, but B's message
\* route only for the recipient who sends a private key (else it lists metadata)
DecryptAttempt ==
    /\ Opened
    /\ S_resp.route = "B/message/get" =>
          /\ S_resp.privateKey # NoPrivateKey
          /\ S_resp.caller = B_messages[S_resp.id].recipient_id

OpenedAsSealed ==
    /\ S_resp.route = "A/message/view"
    /\ ~S_resp.altered
    /\ S_resp.caller = OpenedRecord.recipient
    /\ S_resp.privateKey = PartyKey(S_resp.caller)
    /\ OpenedRecord.signedWith = PartyKey(OpenedRecord.sender)

\* C14: round trip of back end A's messages: the recipient who opens, with the
\* recipient's own private key, a stored message that the sender sealed with the
\* sender's own private key gets exactly the content that was sent.
C14_MessageRoundTrip ==
    OpenedAsSealed => (S_resp.status = 200 /\ S_resp.content = OpenedRecord.plain)

C14_Witness ==
    /\ OpenedAsSealed
    /\ S_resp.content = [text |-> "p2"]
    /\ OpenedRecord.sender # OpenedRecord.recipient
    /\ A_messages[S_resp.id].isRead

\* the last request was a download of an untouched file of back end A by its
\* recipient with the recipient's own key, uploaded with the sender's own key
DownloadedAsUploaded ==
    /\ S_resp.route = "A/file/download"
    /\ ~S_resp.altered
    /\ S_resp.caller = OpenedRecord.recipientId
    /\ S_resp.privateKey = PartyKey(S_resp.caller)
    /\ OpenedRecord.signedWith = PartyKey(OpenedRecord.senderId)

\* C15: a file of back end A that the sender uploaded with the sender's own key
\* and nobody modified passes the signature check when its recipient downloads
\* it, and the recipient receives the uploaded content.
C15_UnmodifiedFilePasses ==
    DownloadedAsUploaded =>
        (S_resp.status = 200 /\ S_resp.content = OpenedRecord.plain)

\* the recipient of the message the last request asked for
OpenedRecipient ==
    IF S_resp.route = "A/message/view" THEN A_messages[S_resp.id].recipient
    ELSE B_messages[S_resp.id].recipient_id

\* the last request tried to open a message with a private key and one of the
\* listed failures applies: the caller is not the recipient, the key is not the
\* recipient's, the signature is not the sender's, or the ciphertext no longer
\* matches the stored digest
FailedMessageOpen ==
    /\ S_resp.route \in {"A/message/view", "B/message/get"}
    /\ S_resp.privateKey # NoPrivateKey
    /\ \/ S_resp.caller # OpenedRecipient
       \/ S_resp.privateKey # PartyKey(OpenedRecipient)
       \/ ~SenderSignatureGood
       \/ S_resp.altered

\* C16: every failed attempt to open a message is answered with an error and
\* without content.
C16_FailedOpenFailsClosed ==
    FailedMessageOpen => (S_resp.status # 200 /\ S_resp.content = NoContent)

\* every ciphertext the routes have stored
StoredCiphertexts ==
    UNION { {A_messages[i].encryptedContent, A_messages[i].encryptedKey}
              : i \in DOMAIN A_messages }
    \cup { A_files[i].content : i \in DOMAIN A_files }
    \cup { B_messages[i].encrypted_content : i \in DOMAIN B_messages }
    \cup UNION { {B_files[i].stored, B_files[i].encrypted_key} : i \in DOMAIN B_files }
    \cup { sh.encrypted_file_key : sh \in B_shares }

\* a symmetric key as the routes hand it to the public-key cipher: raw or in hex
SymmetricKeys ==
    { AESKey(n) : n \in 1..MaxStored }
    \cup { Buffer_toString_hex(AESKey(n)) : n \in 1..MaxStored }

\* C17: whatever a send or upload has encrypted under a public key is a
\* symmetric key; content is never encrypted directly with RSA.
C17_RSAOnlyWrapsKeys ==
    \A c \in StoredCiphertexts : c.kind = "rsa" => c.data \in SymmetricKeys

\* the last request was a download of an untouched file of back end B by a user
\* the file is shared with, with that user's own private key
DownloadedByShare ==
    /\ S_resp.route = "B/file/download"
    /\ ~S_resp.altered
    /\ S_resp.caller # B_files[S_resp.id].owner_id
    /\ SharesOf(S_resp.id, S_resp.caller) # {}
    /\ S_resp.privateKey = PartyKey(S_resp.caller)

\* what the owner's download of file id with the owner's own key answers
OwnerDownload(id) ==
    B_downloadFile(id, B_files[id].owner_id, PartyKey(B_files[id].owner_id), "throws")

C19_PrivateKeyStaysAtClient ==
    S_req.route # "none" => S_req.privateKey = NoPrivateKey

\* C20: no row of the audit log holds a private key.
C20_NoStoredPrivateKey ==
    \A row \in B_audit : row.query.privateKey = NoPrivateKey

----------------------------------------------------------------------------
(* The browser: Login.js, App.js and utils/api.js of the frontend *)

\* a token or user object as the server returns it for user u
TokenOf(u) == [jwt |-> u]

\* JSON.stringify, and JSON.parse, which throws on any other text
JSON_stringify(value) == [json |-> value]

JSON_parse(text) == IF DOMAIN text = {"json"} THEN text.json ELSE Garbage

UserData(u) == [username |-> u]

\* ClientCrypto.isValidPEM: the chosen file holds a PEM private key
NotPem == 0

\* POST /login as Login.js sees it: 200 when the signature over the challenge
\* verifies under the user's key and the certificate check passes, else 401
LoginStatus(username, privateKey) ==
    IF A_build = "fixed" /\ privateKey = PartyKey(username) THEN 200 ELSE 401

\* the response interceptor of axios: a 401 removes the token and reloads /login
Interceptor401(storage) == [storage EXCEPT !["token"] = Null]

\* Login.handleSubmit, from reader.onload on
Login_handleSubmit(username, privateKey) ==
    /\ IF privateKey = NotPem
       THEN UNCHANGED <<F_localStorage, F_appToken>>
       ELSE IF LoginStatus(username, privateKey) = 200
       THEN /\ F_localStorage' = [F_localStorage EXCEPT
                                     !["token"] = TokenOf(username),
                                     !["user"] = JSON_stringify(UserData(username)),
                                     !["privateKey"] = [pem |-> privateKey]]
            /\ F_appToken' = TokenOf(username)
       ELSE /\ F_localStorage' = Interceptor401(F_localStorage)
            /\ F_appToken' = Null
    /\ UNCHANGED <<F_auth, F_keys>>

\* Navigation.handleLogout: the bar is rendered only with a token
Navigation_handleLogout ==
    /\ F_appToken # Null
    /\ F_appToken' = Null
    /\ F_localStorage' = [F_localStorage EXCEPT !["token"] = Null]
    /\ UNCHANGED <<F_auth, F_keys>>

\* a file or message request answered 401 (token expired): the interceptor
\* clears the token and the page reloads, App reads the saved token again
F_Unauthorized ==
    /\ F_localStorage["token"] # Null
    /\ F_localStorage' = Interceptor401(F_localStorage)
    /\ F_appToken' = Null
    /\ UNCHANGED <<F_auth, F_keys>>

\* AuthContext: the reducer
authReducer(state, action) ==
    CASE action.type \in {"LOGIN_START", "REGISTER_START"} ->
            [state EXCEPT !.loading = TRUE, !.error = Null]
      [] action.type = "LOGIN_SUCCESS" ->
            [state EXCEPT !.loading = FALSE, !.user = action.payload.user,
                          !.token = action.payload.token,
                          !.isAuthenticated = TRUE, !.error = Null]
      [] action.type = "REGISTER_SUCCESS" ->
            [state EXCEPT !.loading = FALSE, !.error = Null]
      [] action.type \in {"LOGIN_FAILURE", "REGISTER_FAILURE"} ->
            [state EXCEPT !.loading = FALSE, !.error = action.payload,
                          !.user = Null, !.token = Null, !.isAuthenticated = FALSE]
      [] action.type = "LOGOUT" ->
            [initialState EXCEPT !.loading = FALSE]
      [] action.type = "LOAD_USER" ->
            [state EXCEPT !.loading = FALSE, !.user = action.payload.user,
                          !.token = action.payload.token, !.isAuthenticated = TRUE]
      [] action.type = "CLEAR_ERROR" ->
            [state EXCEPT !.error = Null]
      [] action.type = "SET_LOADING" ->
            [state EXCEPT !.loading = action.payload]
      [] OTHER -> state

\* handleAPIError(error).message
ErrorMessage(status) == [message |-> status]

\* the response interceptor of services/api.js: a 401 removes the token and the
\* user and reloads /login
ServiceInterceptor(storage, status) ==
    IF status = 401
    THEN [storage EXCEPT !["authToken"] = Null, !["user"] = Null]
    ELSE storage

\* the page is loaded: useReducer(authReducer, initialState), then the effect
\* loadStoredUser
AuthProvider_loadStoredUser ==
    LET token == F_localStorage["authToken"]
        user  == F_localStorage["user"]
    IN  /\ IF token # Null /\ user # Null
           THEN IF JSON_parse(user) = Garbage
                THEN /\ F_localStorage' = [F_localStorage EXCEPT
                                              !["authToken"] = Null, !["user"] = Null]
                     /\ F_auth' = authReducer(initialState,
                                      [type |-> "SET_LOADING", payload |-> FALSE])
                ELSE /\ F_auth' = authReducer(initialState,
                                      [type |-> "LOAD_USER",
                                       payload |-> [token |-> token,
                                                    user |-> JSON_parse(user)]])
                     /\ UNCHANGED F_localStorage
           ELSE /\ F_auth' = authReducer(initialState,
                                 [type |-> "SET_LOADING", payload |-> FALSE])
                /\ UNCHANGED F_localStorage
        /\ UNCHANGED <<F_appToken, F_keys>>

\* register(userData): status is the answer of POST /auth/register, 0 for no
\* answer at all
AuthContext_register(username, status) ==
    LET started == authReducer(F_auth, [type |-> "REGISTER_START"])
    IN  /\ IF status = 201
           THEN /\ F_keys' = F_keys \cup {username}
                /\ F_auth' = authReducer(started, [type |-> "REGISTER_SUCCESS"])
           ELSE /\ F_auth' = authReducer(started,
                                 [type |-> "REGISTER_FAILURE",
                                  payload |-> ErrorMessage(status)])
                /\ UNCHANGED F_keys
        /\ UNCHANGED <<F_localStorage, F_appToken>>

\* login(credentials): status is the answer of POST /auth/login
AuthContext_login(username, status) ==
    LET started == authReducer(F_auth, [type |-> "LOGIN_START"])
    IN  /\ IF status = 200
           THEN /\ F_localStorage' = [F_localStorage EXCEPT
                        !["authToken"] = TokenOf(username),
                        !["user"] = JSON_stringify(UserData(username))]
                /\ F_auth' = authReducer(started,
                                 [type |-> "LOGIN_SUCCESS",
                                  payload |-> [user |-> UserData(username),
                                               token |-> TokenOf(username)]])
           ELSE /\ F_localStorage' = ServiceInterceptor(F_localStorage, status)
                /\ F_auth' = authReducer(started,
                                 [type |-> "LOGIN_FAILURE",
                                  payload |-> ErrorMessage(status)])
        /\ UNCHANGED <<F_appToken, F_keys>>

\* logout(): whatever POST /auth/logout answers, the finally block runs
AuthContext_logout ==
    /\ F_localStorage' = [F_localStorage EXCEPT !["authToken"] = Null, !["user"] = Null]
    /\ F_keys' = IF F_auth.user # Null THEN F_keys \ {F_auth.user.username} ELSE F_keys
    /\ F_auth' = authReducer(F_auth, [type |-> "LOGOUT"])
    /\ UNCHANGED F_appToken

\* getProfile(): status is the answer of GET /auth/profile, which is 200 only
\* for a request that carries a token
AuthContext_getProfile(status) ==
    /\ status = 200 => F_localStorage["authToken"] # Null
    /\ IF status = 200
       THEN LET updatedUser == UserData(F_localStorage["authToken"].jwt)
            IN  /\ F_localStorage' = [F_localStorage EXCEPT
                                         !["user"] = JSON_stringify(updatedUser)]
                /\ F_auth' = authReducer(F_auth,
                                 [type |-> "LOAD_USER",
                                  payload |-> [user |-> updatedUser,
                                               token |-> F_auth.token]])
                /\ UNCHANGED F_keys
       ELSE IF status = 401
       THEN \* the interceptor, then logout()
            /\ F_localStorage' = ServiceInterceptor(F_localStorage, status)
            /\ F_keys' = IF F_auth.user # Null
                         THEN F_keys \ {F_auth.user.username} ELSE F_keys
            /\ F_auth' = authReducer(F_auth, [type |-> "LOGOUT"])
       ELSE UNCHANGED <<F_localStorage, F_auth, F_keys>>
    /\ UNCHANGED F_appToken

\* clearError()
AuthContext_clearError ==
    /\ F_auth' = authReducer(F_auth, [type |-> "CLEAR_ERROR"])
    /\ UNCHANGED <<F_localStorage, F_appToken, F_keys>>

InitFront ==
    /\ now = 0
    /\ A_build \in {"committed", "fixed"}
    /\ A_caKeyFile = NoFile
    /\ A_caCertFile = NoFile
    /\ A_users = [u \in Users |-> NoUser]
    /\ A_keyCounter = 0
    /\ A_revokeLog = {}
    /\ A_challenges = {}
    /\ A_req = [r \in Reqs |-> IdleReq]
    /\ A_init = [c \in InitCallers |-> IdleCall]
    /\ A_lastVerify = NoVerify
    /\ InitB
    /\ InitS
    /\ InitF
    /\ InitN

StepFront ==
    \/ \E u \in Parties, k \in PrivateKeys \cup {NotPem} : Login_handleSubmit(u, k)
    \/ Navigation_handleLogout
    \/ F_Unauthorized
    \/ AuthProvider_loadStoredUser
    \/ \E u \in Parties, status \in {201, 409, 0} : AuthContext_register(u, status)
    \/ \E u \in Parties, status \in {200, 401, 0} : AuthContext_login(u, status)
    \/ AuthContext_logout
    \/ \E status \in {200, 401, 0} : AuthContext_getProfile(status)
    \/ AuthContext_clearError

NextFront ==
    StepFront /\ UNCHANGED <<now, varsA, A_init, A_lastVerify, varsB, varsS, varsW, varsN, varsR>>

SpecFront == InitFront /\ [][NextFront]_vars

\* C21: localStorage never holds a private key.
C21_NoPrivateKeyInLocalStorage == F_localStorage["privateKey"] = Null

----------------------------------------------------------------------------
(* Results of verification (SpecCA) *)

\* why a certificate is not valid at time t: outside its window, serial revoked,
\* not signed by the root on file
FailureCauses(cert, t) ==
    (IF InWindow(cert, t) THEN {} ELSE {"Expired"})
    \cup (IF cert.serialNumber \in A_revokeLog THEN {"Revoked"} ELSE {})
    \cup (IF SignedByCA(cert) THEN {} ELSE {"SignatureInvalid"})

\* C22: the result of verify tells the causes apart: two certificates that are
\* invalid for different reasons never get the same result.
C22_ResultTellsCause ==
    \A c1, c2 \in {c \in PresentableA : c.kind = "cert"} :
        ( /\ FailureCauses(c1, now) # {}
          /\ FailureCauses(c2, now) # {}
          /\ FailureCauses(c1, now) # FailureCauses(c2, now) )
        => A_verifyCertificate(c1, now) # A_verifyCertificate(c2, now)

\* the certificates issueCertificate has returned (registration stores them)
IssuedA == {A_users[u].certificate : u \in {v \in Users : A_users[v] # NoUser}}

\* C23: a certificate returned by issue verifies as valid afterwards, as long as
\* it has not been revoked and now is inside its validity window.
C23_IssuedVerifies ==
    ( /\ A_lastVerify.called
      /\ A_lastVerify.cert \in IssuedA
      /\ InWindow(A_lastVerify.cert, A_lastVerify.at)
      /\ ~A_lastVerify.revoked )
    => A_lastVerify.answer = "true"

----------------------------------------------------------------------------
(* The honest login (SpecLogin) *)

\* request r is the login the protocol describes: the user was registered and
\* not revoked when it arrived, the certificate has not expired, the challenge
\* came from POST /challenge, is fresh and unused, and the signature over it was
\* made with the registered key
HonestLogin(r) ==
    /\ Answered(r)
    /\ A_req[r].registered
    /\ ~A_req[r].revoked
    /\ now <= A_users[A_req[r].username].expiresAt
    /\ A_req[r].issued /\ ~A_req[r].late /\ ~A_req[r].replay
    /\ A_req[r].signature =
          CryptoUtils_createSignature(A_req[r].challenge,
                                      A_users[A_req[r].username].publicKey)

\* C24: the honest login of a registered user succeeds.
C24_HonestLoginSucceeds ==
    \A r \in Reqs : HonestLogin(r) => A_req[r].status = 200

----------------------------------------------------------------------------
(* Signatures on the wire: what each producer emits and each verifier reads *)

\* RSASSA-PKCS1-v1_5 over SHA-256: the signature bytes, and their check
rsa_sign(data, privateKey) == [key |-> privateKey, data |-> data]

rsa_verify(data, bytes, publicKey) ==
    /\ DOMAIN bytes = {"key", "data"}
    /\ bytes.key = publicKey
    /\ bytes.data = data

\* forge.util.bytesToHex / hexToBytes and the 'hex' argument of Node's sign/verify
forge_util_bytesToHex(bytes) == [hex |-> bytes]

forge_util_hexToBytes(text) == IF DOMAIN text = {"hex"} THEN text.hex ELSE Garbage

\* forge.util.encode64 / decode64
forge_util_encode64(bytes) == [b64 |-> bytes]

forge_util_decode64(text) == IF DOMAIN text = {"b64"} THEN text.b64 ELSE Garbage

\* frontend, ClientCrypto (used by Login.js)
ClientCrypto_signChallenge_encode64(challenge, privateKeyPem) ==
    forge_util_encode64(rsa_sign(challenge, privateKeyPem))

ClientCrypto_signChallenge(challenge, privateKeyPem) ==
    forge_util_bytesToHex(rsa_sign(challenge, privateKeyPem))

ClientCrypto_createSignature(data, privateKeyPem) ==
    forge_util_bytesToHex(rsa_sign(data, privateKeyPem))

ClientCrypto_verifySignature(data, signature, publicKeyPem) ==
    rsa_verify(data, forge_util_hexToBytes(signature), publicKeyPem)

\* frontend, cryptoUtils (used by the contexts)
cryptoUtils_signData(data, privateKeyPem) ==
    forge_util_encode64(rsa_sign(data, privateKeyPem))

cryptoUtils_verifySignature(data, signature, publicKeyPem) ==
    rsa_verify(data, forge_util_decode64(signature), publicKeyPem)

\* back end A, CryptoUtils and file.js: sign(privateKey, 'hex') and
\* verify(publicKey, signature, 'hex')
Node_sign_hex(data, privateKey) == forge_util_bytesToHex(rsa_sign(data, privateKey))

Node_verify_hex(data, signature, publicKey) ==
    rsa_verify(data, forge_util_hexToBytes(signature), publicKey)

\* back end B, CryptoUtils.signData and verifySignature
B_signData_encode64(data, privateKeyPem) ==
    forge_util_encode64(rsa_sign(data, privateKeyPem))

B_verifySignature_decode64(data, signature, publicKeyPem) ==
    rsa_verify(data, forge_util_decode64(signature), publicKeyPem)

\* one signature goes from its producer to its verifier
Handed(channel, signed, privateKey, checked, publicKey, text, ok) ==
    /\ W_sig' = [channel |-> channel, signed |-> signed, privateKey |-> privateKey,
                 checked |-> checked, publicKey |-> publicKey,
                 text |-> text, ok |-> ok]
    /\ UNCHANGED <<now, varsA, A_init, A_lastVerify, varsB, varsS, varsF, varsN, varsR>>

\* Login.js signs the challenge, POST /login verifies it
W_Login(d, k, e, pub) ==
    LET text == ClientCrypto_signChallenge(d, k)
    IN  Handed("login", d, k, e, pub, text, Node_verify_hex(e, text, pub))

\* POST /send of back end A signs, POST /view verifies
W_MessageA(d, k, e, pub) ==
    LET text == Node_sign_hex(d, k)
    IN  Handed("A/message", d, k, e, pub, text, Node_verify_hex(e, text, pub))

\* POST /upload of back end A signs, POST /download verifies
W_FileA(d, k, e, pub) ==
    LET text == Node_sign_hex(d, k)
    IN  Handed("A/file", d, k, e, pub, text, Node_verify_hex(e, text, pub))

\* ClientCrypto signs and verifies in the browser
W_Client(d, k, e, pub) ==
    LET text == ClientCrypto_createSignature(d, k)
    IN  Handed("client", d, k, e, pub, text, ClientCrypto_verifySignature(e, text, pub))

\* POST /send of back end B signs, GET /:id verifies
W_MessageB(d, k, e, pub) ==
    LET text == B_signData_encode64(d, k)
    IN  Handed("B/message", d, k, e, pub, text,
               B_verifySignature_decode64(e, text, pub))

\* back end B signs, the browser verifies what the server returned
W_MessageBClient(d, k, e, pub) ==
    LET text == B_signData_encode64(d, k)
    IN  Handed("B/message/client", d, k, e, pub, text,
               cryptoUtils_verifySignature(e, text, pub))

\* POST /upload of back end B signs, POST /:id/verify verifies
W_FileB(d, k, e, pub) ==
    LET text == B_signData_encode64(d, k)
    IN  Handed("B/file", d, k, e, pub, text,
               B_verifySignature_decode64(e, text, pub))

\* the crypto context signs and verifies in the browser
W_Context(d, k, e, pub) ==
    LET text == cryptoUtils_signData(d, k)
    IN  Handed("context", d, k, e, pub, text,
               cryptoUtils_verifySignature(e, text, pub))

InitSig == InitFront

StepSig ==
    \E d, e \in Contents, k, pub \in PrivateKeys :
        \/ W_Login(d, k, e, pub)
        \/ W_MessageA(d, k, e, pub)
        \/ W_FileA(d, k, e, pub)
        \/ W_Client(d, k, e, pub)
        \/ W_MessageB(d, k, e, pub)
        \/ W_MessageBClient(d, k, e, pub)
        \/ W_FileB(d, k, e, pub)
        \/ W_Context(d, k, e, pub)

NextSig == StepSig

SpecSig == InitSig /\ [][NextSig]_vars

\* C25: on every path from a producer to a verifier the verifier decodes the
\* encoding the producer used: a signature is accepted exactly when it was made
\* over the checked data with the key pair of the checking public key.
C25_OneEncodingPerPair ==
    W_sig.channel # "none" =>
        ( W_sig.ok <=> ( /\ W_sig.publicKey = W_sig.privateKey
                         /\ W_sig.checked = W_sig.signed ) )

C25_Witness ==
    /\ W_sig.channel = "login"
    /\ W_sig.ok
    /\ W_sig.text = forge_util_bytesToHex(rsa_sign([text |-> "p1"], PartyKey("bob")))

----------------------------------------------------------------------------
----------------------------------------------------------------------------
(* Back end B: sessions, and the middlewares that authenticate a token *)

\* expiresIn: '24h' of the token, and expires_at of its session row
SessionTTL == 2

\* the token of session s: payload { userId, username, sessionToken }, exp
JwtOf(s) == [userId |-> N_user_sessions[s].user_id, sessionToken |-> s,
             exp |-> N_user_sessions[s].expires_at]

\* jwt.verify: the decoded payload, or an exception for a token this server
\* did not sign or an expired one
jwt_verify(s, t) ==
    IF N_user_sessions[s] # NoSession /\ t < JwtOf(s).exp
    THEN JwtOf(s) ELSE NoSession

\* authenticateToken: req.user, or NoOne when the middleware answers 401
authenticateToken(s, t) ==
    LET decoded == jwt_verify(s, t)
    IN  IF decoded = NoSession THEN NoOne
        ELSE IF ~N_users[decoded.userId].is_active THEN NoOne
        ELSE IF ~( /\ N_user_sessions[decoded.sessionToken].user_id = decoded.userId
                   /\ N_user_sessions[decoded.sessionToken].expires_at > t
                   /\ N_user_sessions[decoded.sessionToken].is_active ) THEN NoOne
        ELSE decoded.userId

\* optionalAuth: req.user, or NoOne when the request goes on without a user
optionalAuth(s, t) ==
    LET decoded == jwt_verify(s, t)
    IN  IF decoded = NoSession THEN NoOne
        ELSE IF ~N_users[decoded.userId].is_active THEN NoOne
        ELSE decoded.userId

Ran(middleware, s, user) ==
    N_last' = [middleware |-> middleware, token |-> s, user |-> user,
               invalidated |-> s \in N_invalidated]

\* POST /api/auth/login
N_Login(username, password) ==
    /\ N_users[username].is_active
    /\ N_users[username].password = password
    /\ \E s \in 1..MaxSessions :
          /\ N_user_sessions[s] = NoSession
          /\ \A q \in 1..(s - 1) : N_user_sessions[q] # NoSession
          /\ N_user_sessions' = [N_user_sessions EXCEPT ![s] =
                 [user_id |-> username, expires_at |-> now + SessionTTL,
                  is_active |-> TRUE]]
    /\ UNCHANGED <<now, N_users, N_invalidated, N_last>>

\* POST /api/auth/logout
N_Logout(s) ==
    LET user == authenticateToken(s, now)
    IN  /\ Ran("authenticateToken", s, user)
        /\ IF user = NoOne
           THEN UNCHANGED <<N_user_sessions, N_invalidated>>
           ELSE /\ N_user_sessions' = [N_user_sessions EXCEPT ![s].is_active = FALSE]
                /\ N_invalidated' = N_invalidated \cup {s}
        /\ UNCHANGED <<now, N_users>>

\* POST /api/auth/change-password
N_ChangePassword(s, currentPassword, newPassword) ==
    LET user == authenticateToken(s, now)
        others == {q \in 1..MaxSessions :
                      /\ N_user_sessions[q] # NoSession
                      /\ N_user_sessions[q].user_id = user
                      /\ q # s}
    IN  /\ Ran("authenticateToken", s, user)
        /\ IF user = NoOne \/ N_users[user].password # currentPassword
           THEN UNCHANGED <<N_users, N_user_sessions, N_invalidated>>
           ELSE /\ N_users' = [N_users EXCEPT ![user].password = newPassword]
                /\ N_user_sessions' = [q \in 1..MaxSessions |->
                       IF q \in others
                       THEN [N_user_sessions[q] EXCEPT !.is_active = FALSE]
                       ELSE N_user_sessions[q]]
                /\ N_invalidated' = N_invalidated \cup others
        /\ UNCHANGED now

\* PUT /api/users/:id/status
N_SetStatus(s, id, isActive) ==
    LET user == authenticateToken(s, now)
        theirs == {q \in 1..MaxSessions :
                      /\ N_user_sessions[q] # NoSession
                      /\ N_user_sessions[q].user_id = id}
    IN  /\ Ran("authenticateToken", s, user)
        /\ IF user # "admin"
           THEN UNCHANGED <<N_users, N_user_sessions, N_invalidated>>
           ELSE /\ N_users' = [N_users EXCEPT ![id].is_active = isActive]
                /\ IF isActive
                   THEN UNCHANGED <<N_user_sessions, N_invalidated>>
                   ELSE /\ N_user_sessions' = [q \in 1..MaxSessions |->
                              IF q \in theirs
                              THEN [N_user_sessions[q] EXCEPT !.is_active = FALSE]
                              ELSE N_user_sessions[q]]
                        /\ N_invalidated' = N_invalidated \cup theirs
        /\ UNCHANGED now

\* GET /api/auth/profile: a route behind authenticateToken
N_Profile(s) ==
    /\ Ran("authenticateToken", s, authenticateToken(s, now))
    /\ UNCHANGED <<now, N_users, N_user_sessions, N_invalidated>>

\* a route behind optionalAuth
N_Optional(s) ==
    /\ Ran("optionalAuth", s, optionalAuth(s, now))
    /\ UNCHANGED <<now, N_users, N_user_sessions, N_invalidated>>

TickN == now < MaxTime /\ now' = now + 1 /\ UNCHANGED varsN

InitSession == InitFront

StepSession ==
    \/ \E u \in N_Users, p \in Passwords : N_Login(u, p)
    \/ \E s \in 1..MaxSessions : N_Logout(s)
    \/ \E s \in 1..MaxSessions, p, q \in Passwords : N_ChangePassword(s, p, q)
    \/ \E s \in 1..MaxSessions, id \in N_Users, b \in BOOLEAN : N_SetStatus(s, id, b)
    \/ \E s \in 1..MaxSessions : N_Profile(s)
    \/ \E s \in 1..MaxSessions : N_Optional(s)
    \/ TickN

NextSession ==
    StepSession /\ UNCHANGED <<varsA, A_init, A_lastVerify, varsB, varsS, varsF, varsW, varsR>>

SpecSession == InitSession /\ [][NextSession]_vars

\* C27: no authentication middleware authenticates a request that carries the
\* token of a session invalidated earlier (by logout, by a password change from
\* another session, or by deactivation), also after the account is active again.
C27_InvalidatedStaysOut ==
    (N_last.middleware # "none" /\ N_last.invalidated) => N_last.user = NoOne

----------------------------------------------------------------------------
\* authenticateCertificate: the active users found by the serial number read
\* from the presented certificate
B_usersByCertificate(cert) ==
    {row \in B_users : row.certificate_serial = cert.serialNumber /\ row.is_active}

\* C28: the serial number generateUserCertificate returns, stored as
\* certificate_serial, equals the serial number read back from the certificate,
\* so the certificate of a registered user leads authenticateCertificate to
\* that user.
C28_SerialReadBack ==
    /\ \A i \in 1..Len(B_issued) :
          B_issued[i].serialNumber = B_issued[i].certificate.serialNumber
    /\ \A row \in B_users :
          row.is_active =>
             \E found \in B_usersByCertificate(row.certificate) :
                 found.username = row.username

----------------------------------------------------------------------------
(* The read flag of a message: each request first loads the message and,  *)
(* after its checks, writes the flag and the read time                     *)

\* findById / SELECT: the request holds the message as it is now
R_Load(h, route, caller, id, privateKey) ==
    /\ R_req[h] = IdleHandler
    /\ \A g \in 1..(h - 1) : R_req[g] # IdleHandler
    /\ id \in DOMAIN (IF route = "B/get" THEN B_messages ELSE A_messages)
    /\ R_req' = [R_req EXCEPT ![h] =
          [route |-> route, caller |-> caller, id |-> id, privateKey |-> privateKey,
           message |-> IF route = "B/get" THEN B_messages[id] ELSE A_messages[id]]]
    /\ UNCHANGED <<now, varsS>>

\* PATCH /read/:messageId: the status of the route
A_markRead(message, caller) == IF message.recipient # caller THEN 403 ELSE 200

\* whether the request goes on to mark the message it loaded as read
R_Marks(req) ==
    CASE req.route = "A/view" ->
            /\ req.privateKey # NoPrivateKey
            /\ A_viewMessage(req.message, req.caller, req.privateKey, "throws").status = 200
            /\ ~req.message.isRead
      [] req.route = "A/read" ->
            /\ A_markRead(req.message, req.caller) = 200
            /\ ~req.message.isRead
      [] req.route = "B/get" ->
            LET answer == B_getMessage(req.message, req.caller, req.privateKey)
            IN  /\ answer.status = 200
                /\ answer.content # NoContent
                /\ ~req.message.is_read
      [] OTHER -> FALSE

\* message.save() / UPDATE messages SET is_read = true, read_at = NOW(), and
\* the response
R_Finish(h) ==
    /\ R_req[h] # IdleHandler
    /\ LET req == R_req[h]
       IN  IF R_Marks(req)
           THEN IF req.route = "B/get"
                THEN /\ B_messages' = [B_messages EXCEPT
                            ![req.id].is_read = TRUE, ![req.id].read_at = [at |-> now]]
                     /\ UNCHANGED A_messages
                ELSE /\ A_messages' = [A_messages EXCEPT
                            ![req.id].isRead = TRUE, ![req.id].readAt = [at |-> now]]
                     /\ UNCHANGED B_messages
           ELSE UNCHANGED <<A_messages, B_messages>>
    /\ R_req' = [R_req EXCEPT ![h] = IdleHandler]
    /\ UNCHANGED <<now, A_files, B_files, B_shares, B_audit, S_req, S_resp>>

TickR == now < MaxTime /\ now' = now + 1 /\ UNCHANGED <<varsS, varsR>>

InitRead == InitSeal

StepRead ==
    \/ /\ OnlyAMessages
       /\ \E u, v \in Parties : A_Send(u, v, [text |-> "p1"], PartyKey(u))
       /\ UNCHANGED <<now, varsR>>
    \/ /\ OnlyBMessages
       /\ \E u, v \in Parties : B_Send(u, v, [text |-> "p1"], PartyKey(u))
       /\ UNCHANGED <<now, varsR>>
    \/ \E id \in 1..MaxStored : A_AlterMessage(id) /\ UNCHANGED <<now, varsR>>
    \/ \E id \in 1..MaxStored : B_AlterMessage(id) /\ UNCHANGED <<now, varsR>>
    \/ \E h \in 1..MaxHandlers, route \in {"A/view", "A/read", "B/get"},
          u \in Parties, id \in 1..MaxStored, k \in PrivateKeys \cup {NoPrivateKey} :
          /\ route = "A/read" => k = NoPrivateKey
          /\ R_Load(h, route, u, id, k)
    \/ \E h \in 1..MaxHandlers : R_Finish(h)
    \/ TickR

NextRead ==
    StepRead /\ UNCHANGED <<varsA, A_init, A_lastVerify, varsB, varsF, varsW, varsN>>

SpecRead == InitRead /\ [][NextRead]_vars

\* the request that finishes in this step viewed, as its recipient, message id
\* of the back end, and its checks passed
RecipientViewed(backend, id) ==
    \E h \in 1..MaxHandlers :
        /\ R_req[h] # IdleHandler
        /\ R_req'[h] = IdleHandler
        /\ R_req[h].id = id
        /\ IF backend = "B"
           THEN /\ R_req[h].route = "B/get"
                /\ R_req[h].caller = B_messages[id].recipient_id
           ELSE /\ R_req[h].route \in {"A/view", "A/read"}
                /\ R_req[h].caller = A_messages[id].recipient

\* C29: the read flag of a message only goes from unread to read, only in a
\* request by its recipient, and the read time is set once: a step that changes
\* the flag or the read time of a stored message starts from unread with no
\* read time and is the recipient's request.
C29_ReadOnceByRecipient ==
    [][ /\ \A id \in DOMAIN A_messages :
             ( id \in DOMAIN A_messages'
               /\ <<A_messages'[id].isRead, A_messages'[id].readAt>>
                     # <<A_messages[id].isRead, A_messages[id].readAt>> )
             => ( /\ ~A_messages[id].isRead /\ A_messages[id].readAt = Null
                  /\ A_messages'[id].isRead /\ A_messages'[id].readAt # Null
                  /\ RecipientViewed("A", id) )
        /\ \A id \in DOMAIN B_messages :
             ( id \in DOMAIN B_messages'
               /\ <<B_messages'[id].is_read, B_messages'[id].read_at>>
                     # <<B_messages[id].is_read, B_messages[id].read_at>> )
             => ( /\ ~B_messages[id].is_read /\ B_messages[id].read_at = Null
                  /\ B_messages'[id].is_read /\ B_messages'[id].read_at # Null
                  /\ RecipientViewed("B", id) )
      ]_vars

----------------------------------------------------------------------------
\* C30: in every state of the auth context isAuthenticated is true exactly when
\* user and token are both non-null, and a LOGOUT action leads from it to the
\* unauthenticated state with user and token null.
C30_AuthenticatedIffUserAndToken ==
    /\ F_auth.isAuthenticated <=> (F_auth.user # Null /\ F_auth.token # Null)
    /\ LET out == authReducer(F_auth, [type |-> "LOGOUT"])
       IN  ~out.isAuthenticated /\ out.user = Null /\ out.token = Null

====================================================================================
